---- MODULE Spec2Model ----
(***************************************************************************)
(* A model of Aegis-Animator: the instance-scoped ElementValidator         *)
(* (src/src/core/ElementValidator.ts), the AegisAnimator controller        *)
(* (src/src/animator/AegisAnimator.ts), the CapabilityDetector             *)
(* (src/src/core/CapabilityDetector.ts), the Aegis registry                *)
(* (src/src/manager/Aegis.ts) and the debounce helper                      *)
(* (src/src/utils/debounce.ts), over a small fixed host document.          *)
(***************************************************************************)
EXTENDS Integers, Sequences, FiniteSets, TLC

VARIABLES
    \* ---- ElementValidator instance (ElementValidator.ts:17-18)
    allowedRootElements,   \* sequence of root elements, <<>> when no instance
    validatedElements,     \* the WeakSet of memoized elements
    lastQuery,             \* ghost: the last queryElementSafely call and result
    \* ---- AegisAnimator instance fields (AegisAnimator.ts:41-59)
    phase,                 \* "new" before the constructor ran, then "constructed"
    targetElement,         \* this.targetElement (Null when never assigned)
    options,               \* this.options
    capabilities,          \* this.capabilities
    abortController,       \* "undefined" | "active" | "aborted"
    debouncedMouseLeave,   \* TRUE iff this.debouncedMouseLeave is defined
    elements,              \* this.elements : name -> element
    animations,            \* this.animations : keys of the Map, in insertion order
    sentinelElement,       \* this.sentinelElement # null
    observer,              \* this.observer # null
    isHovering,
    isTriggered,
    isDestroyed,
    errorCount,            \* performanceMetrics.errorCount
    animationCount,        \* performanceMetrics.animationCount
    \* ---- host state the controller acts on
    attrs,                 \* attributes/classes of the element passed as target
    tracks,                \* host Animation objects: name -> playback state
    listeners,             \* listeners registered on the target, in order
    observing,             \* the IntersectionObserver is connected
    sentinelInDocument,    \* the sentinel <div> is attached to the body
    rafQueue,              \* pending requestAnimationFrame callbacks
    timeout,               \* the debounce timer is pending
    \* ---- CapabilityDetector (CapabilityDetector.ts:17)
    cache,                 \* the static cache: {} when null, else {capabilities}
    probeRuns,             \* ghost: how often detect() has run its probes
    host,                  \* what the probes find in the host at this moment
    lastCall,              \* ghost: the last use of the detector and its outcome
    \* ---- Aegis (Aegis.ts:16) and the controllers attach() created
    instances,             \* the static Map: element -> controller, Null if absent
    controllers,           \* every controller created, in creation order
    \* ---- one debounced function (debounce.ts:18) and the host's timers
    dTimeout,              \* the closure's `timeout`: a timer id, Null if undefined
    timers,                \* the host's pending timers: [id, due, args]
    clock,                 \* the host's time
    history,               \* ghost: the calls, cancels and invocations so far
    \* ---- the pointer of the host
    pointerInside,         \* the pointer is over the target element
    \* ---- what the constructor call did
    ctorThrew,             \* an exception escaped the constructor
    ctorFatal              \* the constructor met a construction-time fatal error

vars == <<allowedRootElements, validatedElements, lastQuery, phase, targetElement,
          options, capabilities, abortController, debouncedMouseLeave, elements,
          animations, sentinelElement, observer, isHovering, isTriggered,
          isDestroyed, errorCount, animationCount, attrs, tracks, listeners,
          observing, sentinelInDocument, rafQueue, timeout, cache, probeRuns,
          ctorThrew, ctorFatal, host, lastCall, instances, controllers,
          dTimeout, timers, clock, history, pointerInside>>

validatorVars == <<allowedRootElements, validatedElements, lastQuery>>

animatorVars == <<phase, targetElement, options, capabilities, abortController,
                  debouncedMouseLeave, elements, animations, sentinelElement,
                  observer, isHovering, isTriggered, isDestroyed, errorCount,
                  animationCount, attrs, tracks, listeners, observing,
                  sentinelInDocument, rafQueue, timeout, cache, probeRuns,
                  ctorThrew, ctorFatal>>

\* the state of the other components, which the controller and the validator
\* leave alone
detectorVars == <<host, lastCall>>
registryVars == <<instances, controllers>>
debounceVars == <<dTimeout, timers, clock, history>>
pointerVars == <<pointerInside>>
auxVars == <<detectorVars, registryVars, debounceVars, pointerVars>>

-----------------------------------------------------------------------------
(* Bounds of the model *)

\* longest root list handed to an ElementValidator constructor
MaxRoots == 1
\* tracks whose playback operations throw during one handler call
MaxFaults == 1
\* intersection entries (and initial-state passes) waiting in requested
\* animation frames
MaxPending == 1
\* trigger transitions counted by performanceMetrics.animationCount
MaxAnimationCount == 2
\* runs of the probes of CapabilityDetector (first call and calls after a reset)
MaxProbeRuns == 2
\* controllers created through Aegis.attach
MaxControllers == 3
\* calls and cancels of the debounced function
MaxCalls == 3
\* the host's time stops here
MaxTime == 6

-----------------------------------------------------------------------------
(* The host document: nodes are numbered in document (pre-)order.          *)
(*   0 the Document itself (the default query context)                     *)
(*   1 <html>                                                              *)
(*   2   <body id="page">                                                  *)
(*   3     <div id="other">                                                *)
(*   4       <p id="nephew">                                               *)
(*   5     <div id="card">                                                 *)
(*   6       <p id="title">                                                *)
(*   7       <script id="s">                                               *)
(*   8     <div id="root">                                                 *)
(*   9       a text node (not an element)                                  *)

Null == -1
Document == 0

NodeType ==
    <<"element", "element", "element", "element", "element", "element",
      "element", "element", "text">>
Tag == <<"html", "body", "div", "p", "div", "p", "script", "div", "#text">>
Id == <<"", "page", "other", "nephew", "card", "title", "s", "root", "">>
Parent == <<Document, 1, 2, 3, 2, 5, 5, 2, 8>>

Nodes == DOMAIN NodeType
Elements == {n \in Nodes : NodeType[n] = "element"}

\* Node.contains: inclusive descendant test
RECURSIVE contains(_, _)
contains(rootEl, el) ==
    IF el \notin Nodes THEN FALSE
    ELSE IF el = rootEl THEN TRUE
    ELSE contains(rootEl, Parent[el])

\* the selector strings of the model and what each one matches
IdSelectors ==
    ("#other" :> "other") @@ ("#nephew" :> "nephew") @@ ("#card" :> "card")
    @@ ("#title" :> "title") @@ ("#s" :> "s") @@ ("#root" :> "root")
    @@ ("#missing" :> "missing")
TagSelectors == ("p" :> "p") @@ ("div" :> "div") @@ ("script" :> "script")
BlankSelectors == {"", "  "}
MalformedSelectors == {"#id[attr="}
Selectors ==
    DOMAIN IdSelectors \cup DOMAIN TagSelectors \cup BlankSelectors
    \cup MalformedSelectors

\* String.prototype.trim on the selector strings of the model
trim(selector) == IF selector \in BlankSelectors THEN "" ELSE selector

SelectorMatches(selector, el) ==
    IF selector \in DOMAIN IdSelectors THEN Id[el] = IdSelectors[selector]
    ELSE IF selector \in DOMAIN TagSelectors THEN Tag[el] = TagSelectors[selector]
    ELSE FALSE

\* a selector the host's parser rejects with a SyntaxError
SelectorSyntaxError(selector) ==
    selector \in MalformedSelectors \/ selector \in BlankSelectors

Min(S) == CHOOSE x \in S : \A y \in S : x <= y

\* context.querySelector(selector) for a selector the parser accepts: the first
\* match in document order among the context's descendants
querySelector(context, selector) ==
    LET scope == IF context = Document THEN Elements
                 ELSE {el \in Elements : el # context /\ contains(context, el)}
        found == {el \in scope : SelectorMatches(selector, el)}
    IN  IF found = {} THEN Null ELSE Min(found)

-----------------------------------------------------------------------------
(* ElementValidator *)

Throw(error) == [ok |-> FALSE, error |-> error]
Return(value) == [ok |-> TRUE, value |-> value]

forbiddenRoots == {"body", "html", "#app", "#root"}
forbiddenTags == {"script", "iframe", "object", "embed"}

\* el.id ? `#${el.id}` : el.tagName.toLowerCase()
rootIdentifier(el) ==
    IF Id[el] # "" THEN
        CASE Id[el] = "root" -> "#root"
          [] Id[el] = "app" -> "#app"
          [] OTHER -> "#other-id"
    ELSE Tag[el]

\* new ElementValidator(rootElements)
ElementValidator(rootElements) ==
    IF Len(rootElements) = 0 THEN Throw("InvalidConfigurationError")
    ELSE IF \E i \in 1..Len(rootElements) :
                rootIdentifier(rootElements[i]) \in forbiddenRoots
    THEN Throw("InvalidConfigurationError")
    ELSE Return(rootElements)

validateSelectorSyntax_AcceptAll(selector) == Return(selector)
validateSelectorSyntax(selector) ==
    IF trim(selector) = "" THEN Throw("InvalidParameterError")
    ELSE IF SelectorSyntaxError(selector) THEN Throw("InvalidParameterError")
    ELSE Return(selector)

NoId == ""

validateElement(el, expectedId) ==
    IF el \notin Elements THEN Throw("InvalidParameterError")
    ELSE IF expectedId # NoId /\ Id[el] # expectedId
    THEN Throw("InvalidParameterError")
    ELSE IF Tag[el] \in forbiddenTags THEN Throw("InvalidParameterError")
    ELSE Return(el)

\* lines 98-105: the element is one of the roots or a descendant of one
IsContained_NoCheck(roots, el) == TRUE
IsContained(roots, el) ==
    \E i \in 1..Len(roots) : roots[i] = el \/ contains(roots[i], el)

\* queryElementSafely(selector, context): the returned element (or Null), the
\* element the live query matched, and the memo set afterwards
queryElementSafely(roots, validated, selector, context) ==
    LET miss(el, queried) ==
            [result |-> Null, matched |-> el, validated |-> validated,
             liveQuery |-> queried, warned |-> TRUE]
    IN  IF ~validateSelectorSyntax(selector).ok THEN miss(Null, FALSE)
        ELSE LET el == querySelector(context, selector)
             IN  IF el = Null
                 THEN [result |-> Null, matched |-> Null, validated |-> validated,
                       liveQuery |-> TRUE, warned |-> FALSE]
                 ELSE IF ~IsContained(roots, el) THEN miss(el, TRUE)
                 ELSE IF ~validateElement(el, NoId).ok THEN miss(el, TRUE)
                 ELSE [result |-> el, matched |-> el,
                       validated |-> validated \cup {el},
                       liveQuery |-> TRUE, warned |-> FALSE]

-----------------------------------------------------------------------------
(* AegisAnimator: the instance and the host state it acts on, as one record *)

MAX_ANIMATION_RETRIES == 3
MAX_ELEMENTS_TO_ANIMATE == 10

\* the logical names a selector map of the model may declare; an absent key of
\* this.elements is shown as Null
ChildKeys == {"child", "icon"}
NoElements == [k \in ChildKeys |-> Null]
elementsSize(els) == Cardinality({k \in ChildKeys : els[k] # Null})

\* what one call of destroy() attempted, and the step that threw (the record
\* of a handler call, not part of the state)
NoTeardown == [failed |-> "none", attempted |-> {}]

\* the instance and the host state at the start of a handler call; `playback`
\* collects the playAllAnimations requests the call makes and `animateCalls`
\* counts its invocations of Element.prototype.animate
World ==
    [allowedRootElements |-> allowedRootElements,
     validatedElements |-> validatedElements,
     targetElement |-> targetElement, options |-> options,
     capabilities |-> capabilities, abortController |-> abortController,
     debouncedMouseLeave |-> debouncedMouseLeave, elements |-> elements,
     animations |-> animations, sentinelElement |-> sentinelElement,
     observer |-> observer, isHovering |-> isHovering,
     isTriggered |-> isTriggered, isDestroyed |-> isDestroyed,
     errorCount |-> errorCount, animationCount |-> animationCount,
     attrs |-> attrs, tracks |-> tracks, listeners |-> listeners,
     observing |-> observing, sentinelInDocument |-> sentinelInDocument,
     rafQueue |-> rafQueue, timeout |-> timeout, cache |-> cache,
     probeRuns |-> probeRuns,
     playback |-> <<>>, teardown |-> NoTeardown, animateCalls |-> 0]

Commit(w) ==
    /\ allowedRootElements' = w.allowedRootElements
    /\ validatedElements' = w.validatedElements
    /\ targetElement' = w.targetElement
    /\ options' = w.options
    /\ capabilities' = w.capabilities
    /\ abortController' = w.abortController
    /\ debouncedMouseLeave' = w.debouncedMouseLeave
    /\ elements' = w.elements
    /\ animations' = w.animations
    /\ sentinelElement' = w.sentinelElement
    /\ observer' = w.observer
    /\ isHovering' = w.isHovering
    /\ isTriggered' = w.isTriggered
    /\ isDestroyed' = w.isDestroyed
    /\ errorCount' = w.errorCount
    /\ animationCount' = w.animationCount
    /\ attrs' = w.attrs
    /\ tracks' = w.tracks
    /\ listeners' = w.listeners
    /\ observing' = w.observing
    /\ sentinelInDocument' = w.sentinelInDocument
    /\ rafQueue' = w.rafQueue
    /\ timeout' = w.timeout
    /\ cache' = w.cache
    /\ probeRuns' = w.probeRuns

\* the result of a step that may throw: the state it left and whether it threw
Ok(w) == [w |-> w, threw |-> FALSE]
Thrown(w) == [w |-> w, threw |-> TRUE]
\* `throw new <class>(...)`: the raised error keeps the class it was built with
ThrownAs(w, class) == [w |-> w, threw |-> TRUE, error |-> class]

TeardownSteps ==
    {"cancelDebounce", "abort", "disconnect", "cancelTracks", "removeSentinel",
     "clearMaps", "removeReady"}

\* a host fault inside destroy(): the step that throws and, for the track loop,
\* the position of the track whose cancel() throws
NoDestroyFault == [step |-> "none", at |-> 0]
DestroyFaults ==
    {NoDestroyFault, [step |-> "disconnect", at |-> 0]}
    \cup {[step |-> "cancelTracks", at |-> i] : i \in 1..2}

Attempt(w, step) ==
    [w EXCEPT !.teardown.attempted = @ \cup {step}]
Fail(w, step) ==
    [w EXCEPT !.teardown.attempted = @ \cup {step}, !.teardown.failed = step]

\* executedFunction.cancel (debounce.ts:34-39)
debounceCancel(w) == [w EXCEPT !.timeout = FALSE]

\* this.debouncedMouseLeave?.cancel()  (line 332)
destroyCancelDebounce(w) ==
    IF w.debouncedMouseLeave THEN Ok(debounceCancel(Attempt(w, "cancelDebounce")))
    ELSE Ok(Attempt(w, "cancelDebounce"))

\* this.abortController.abort(): detaches every listener registered under the
\* signal; a TypeError when the constructor never created the controller
destroyAbort_KeepListeners(w) ==
    IF w.abortController = "undefined" THEN Thrown(Fail(w, "abort"))
    ELSE Ok([Attempt(w, "abort") EXCEPT !.abortController = "aborted"])
destroyAbort(w) ==
    IF w.abortController = "undefined" THEN Thrown(Fail(w, "abort"))
    ELSE Ok([Attempt(w, "abort") EXCEPT !.abortController = "aborted",
                                         !.listeners = <<>>])

\* this.observer?.disconnect()
destroyDisconnect(w, df) ==
    IF ~w.observer THEN Ok(Attempt(w, "disconnect"))
    ELSE IF df.step = "disconnect" THEN Thrown(Fail(w, "disconnect"))
    ELSE Ok([Attempt(w, "disconnect") EXCEPT !.observing = FALSE])

\* Animation.cancel(): the animation becomes idle
cancel(track) == [track EXCEPT !.playState = "idle", !.cancelled = TRUE]

\* this.animations.forEach((animation) => animation.cancel())
RECURSIVE cancelFrom(_, _, _)
cancelFrom(w, i, df) ==
    IF i > Len(w.animations) THEN Ok(w)
    ELSE IF df.step = "cancelTracks" /\ df.at = i THEN Thrown(Fail(w, "cancelTracks"))
    ELSE cancelFrom([w EXCEPT !.tracks[w.animations[i]] = cancel(@)], i + 1, df)
destroyCancelTracks(w, df) == cancelFrom(Attempt(w, "cancelTracks"), 1, df)

\* this.sentinelElement?.remove()
destroyRemoveSentinel_Skip(w) == Ok(Attempt(w, "removeSentinel"))
destroyRemoveSentinel(w) ==
    IF w.sentinelElement
    THEN Ok([Attempt(w, "removeSentinel") EXCEPT !.sentinelInDocument = FALSE])
    ELSE Ok(Attempt(w, "removeSentinel"))

\* this.animations.clear(); this.elements.clear()
destroyClearMaps(w) ==
    Ok([Attempt(w, "clearMaps") EXCEPT !.animations = <<>>, !.elements = NoElements])

\* this.targetElement.removeAttribute("data-animation-ready")
destroyRemoveReady(w) ==
    IF w.targetElement = Null THEN Thrown(Fail(w, "removeReady"))
    ELSE Ok([Attempt(w, "removeReady") EXCEPT !.attrs.ready = FALSE])

\* a step of a try block: skipped once an earlier step has thrown
Then(r, next(_)) == IF r.threw THEN r ELSE next(r.w)

\* the body of destroy() after its guard: the flag, then every teardown step
\* inside a single try block whose catch only logs
teardown(w, df) ==
    LET s1(x) == destroyAbort(x)
        s2(x) == destroyDisconnect(x, df)
        s3(x) == destroyCancelTracks(x, df)
        s4(x) == destroyRemoveSentinel(x)
        s5(x) == destroyClearMaps(x)
        s6(x) == destroyRemoveReady(x)
        w0 == [w EXCEPT !.isDestroyed = TRUE, !.teardown = NoTeardown]
        r == Then(Then(Then(Then(Then(Then(destroyCancelDebounce(w0),
                  s1), s2), s3), s4), s5), s6)
    IN  r.w

\* destroy(): returns at once when the controller is already destroyed
destroy_NoGuard(w, df) == teardown(w, df)
destroy(w, df) == IF w.isDestroyed THEN w ELSE teardown(w, df)

\* handleError(message, error): count, log, and trip the circuit breaker
handleError_OffByOne(w, df) ==
    LET w1 == [w EXCEPT !.errorCount = @ + 1]
    IN  IF w1.errorCount >= MAX_ANIMATION_RETRIES THEN destroy(w1, df) ELSE w1
handleError(w, df) ==
    LET w1 == [w EXCEPT !.errorCount = @ + 1]
    IN  IF w1.errorCount > MAX_ANIMATION_RETRIES THEN destroy(w1, df) ELSE w1

\* handleReducedMotion()
handleReducedMotion(w) ==
    [w EXCEPT !.attrs.classes = @ \cup {"reduced-motion"},
              !.attrs.disabled = "reduced-motion"]

\* handleFallback(reason): a TypeError when this.targetElement was never assigned
handleFallback(w, reason) ==
    IF w.targetElement = Null THEN Thrown(w)
    ELSE Ok([w EXCEPT !.attrs.classes = @ \cup {"js-animation-fallback"},
                      !.attrs.disabled = reason])

-----------------------------------------------------------------------------
(* Playback *)

TrackNames == {"target", "child"}

\* where the host throws while one track is commanded: play() in the
\* reverse-playback attempt (try), pause() in the instant seek (seek); both may
\* throw InvalidStateError, the two property setters do not throw
TryFaults == {"none", "play"}
SeekFaults == {"none", "pause"}
NoFault == [try |-> "none", seek |-> "none"]
TrackFaults == [try : TryFaults, seek : SeekFaults]
NoFaults == [n \in TrackNames |-> NoFault]
Faults ==
    {f \in [TrackNames -> TrackFaults] :
        Cardinality({n \in TrackNames : f[n] # NoFault}) <= MaxFaults}

\* element.animate(keyframes, options): a new animation, playing from 0
animate == [playbackRate |-> 1, currentTime |-> 0, playState |-> "running",
            cancelled |-> FALSE]
pause(track) == [track EXCEPT !.playState = "paused"]
play(track) == [track EXCEPT !.playState = "running"]
setPlaybackRate(track, rate) == [track EXCEPT !.playbackRate = rate]
\* setting currentTime gives an idle animation a hold time: it is paused
setCurrentTime(track, time) ==
    [track EXCEPT !.currentTime = time,
                  !.playState = IF @ = "idle" THEN "paused" ELSE @]

\* Number(animation.effect?.getTiming().duration ?? 0)
duration(w) == w.options.timing.duration

\* seekToEndState (lines 278-281)
seekToEndState_NoPause(w, name, playToEndState, f) ==
    Ok([w EXCEPT !.tracks[name] =
           setCurrentTime(@, IF playToEndState THEN duration(w) ELSE 0)])
seekToEndState(w, name, playToEndState, f) ==
    LET time == IF playToEndState THEN duration(w) ELSE 0
        w1 == [w EXCEPT !.tracks[name] = setCurrentTime(@, time)]
    IN  IF f.seek = "pause" THEN Thrown(w1)
        ELSE Ok([w1 EXCEPT !.tracks[name] = pause(@)])

\* the try block of playOrSeekAnimation (lines 285-287)
reversePlayback_ForwardOnly(w, name, playToEndState, f) ==
    LET w1 == [w EXCEPT !.tracks[name] = setPlaybackRate(@, 1)]
        w2 == [w1 EXCEPT !.tracks[name] = setCurrentTime(@, 0)]
    IN  IF f.try = "play" THEN Thrown(w2)
        ELSE Ok([w2 EXCEPT !.tracks[name] = play(@)])
reversePlayback(w, name, playToEndState, f) ==
    LET w1 == [w EXCEPT !.tracks[name] =
                  setPlaybackRate(@, IF playToEndState THEN 1 ELSE -1)]
        w2 == [w1 EXCEPT !.tracks[name] =
                  setCurrentTime(@, IF playToEndState THEN 0 ELSE duration(w))]
    IN  IF f.try = "play" THEN Thrown(w2)
        ELSE Ok([w2 EXCEPT !.tracks[name] = play(@)])

\* playOrSeekAnimation(animation, playToEndState)
playOrSeekAnimation_AlwaysReverse(w, name, playToEndState, f, df) ==
    LET r == reversePlayback(w, name, playToEndState, f)
    IN  IF r.threw
        THEN seekToEndState(handleError(r.w, df), name, playToEndState, f)
        ELSE r
playOrSeekAnimation(w, name, playToEndState, f, df) ==
    IF w.capabilities.supportsNegativePlaybackRate /\ duration(w) > 0
    THEN LET r == reversePlayback(w, name, playToEndState, f)
         IN  IF r.threw
             THEN seekToEndState(handleError(r.w, df), name, playToEndState, f)
             ELSE r
    ELSE seekToEndState(w, name, playToEndState, f)

\* the for-of loop over this.animations.values(): a live Map iterator, which
\* ends at once when destroy() has cleared the Map
RECURSIVE playFrom(_, _, _, _, _)
playFrom(w, i, playToEndState, faults, df) ==
    IF i > Len(w.animations) THEN Ok(w)
    ELSE LET name == w.animations[i]
             r == playOrSeekAnimation(w, name, playToEndState, faults[name], df)
         IN  IF r.threw THEN r
             ELSE playFrom(r.w, i + 1, playToEndState, faults, df)

\* playAllAnimations(playToEndState)
playAllAnimations(w, playToEndState, faults, df) ==
    LET w0 == [w EXCEPT !.playback = Append(@, playToEndState)]
        r == playFrom(w0, 1, playToEndState, faults, df)
    IN  IF r.threw THEN handleError(r.w, df) ELSE r.w

\* updateAnimationState()
updateAnimationState_NoSuppression(w, faults, df) ==
    IF w.isDestroyed THEN w
    ELSE [playAllAnimations(w, w.isTriggered, faults, df)
             EXCEPT !.animationCount = @ + 1]
updateAnimationState(w, faults, df) ==
    IF w.isDestroyed \/ (w.isHovering /\ w.options.revertOnHover) THEN w
    ELSE [playAllAnimations(w, w.isTriggered, faults, df)
             EXCEPT !.animationCount = @ + 1]

\* the debounced function (debounce.ts:20-29): restart the timer
debounceCall(w) == [w EXCEPT !.timeout = TRUE]

\* handleMouseEnter
handleMouseEnter_KeepTimer(w, faults, df) ==
    IF w.isDestroyed \/ ~w.isTriggered THEN w
    ELSE playAllAnimations([w EXCEPT !.isHovering = TRUE], FALSE, faults, df)
handleMouseEnter(w, faults, df) ==
    IF w.isDestroyed \/ ~w.isTriggered THEN w
    ELSE LET w1 == [w EXCEPT !.isHovering = TRUE]
             w2 == IF w1.debouncedMouseLeave THEN debounceCancel(w1) ELSE w1
         IN  playAllAnimations(w2, FALSE, faults, df)

\* handleMouseLeave
handleMouseLeave(w) ==
    IF w.isDestroyed \/ ~w.isTriggered THEN w
    ELSE LET w1 == [w EXCEPT !.isHovering = FALSE]
         IN  IF w1.debouncedMouseLeave THEN debounceCall(w1) ELSE w1

\* performMouseLeaveActions
performMouseLeaveActions_NoHoverCheck(w, faults, df) ==
    IF ~w.isDestroyed /\ w.isTriggered
    THEN playAllAnimations(w, TRUE, faults, df)
    ELSE w
performMouseLeaveActions(w, faults, df) ==
    IF ~w.isHovering /\ ~w.isDestroyed /\ w.isTriggered
    THEN playAllAnimations(w, TRUE, faults, df)
    ELSE w

\* the hover trigger's listeners (lines 178-179)
triggerMouseEnter(w, faults, df) ==
    updateAnimationState([w EXCEPT !.isTriggered = TRUE], faults, df)
triggerMouseLeave(w, faults, df) ==
    updateAnimationState([w EXCEPT !.isTriggered = FALSE], faults, df)

invoke(w, listener, faults, df) ==
    CASE listener.handler = "triggerMouseEnter" -> triggerMouseEnter(w, faults, df)
      [] listener.handler = "triggerMouseLeave" -> triggerMouseLeave(w, faults, df)
      [] listener.handler = "handleMouseEnter" -> handleMouseEnter(w, faults, df)
      [] listener.handler = "handleMouseLeave" -> handleMouseLeave(w)

\* the host dispatching an event to the target: the listeners registered when
\* the dispatch starts run in order, except those removed in the meantime
RECURSIVE dispatchFrom(_, _, _, _, _, _)
dispatchFrom(w, registered, i, type, faults, df) ==
    IF i > Len(registered) THEN w
    ELSE IF registered[i].type = type /\ w.listeners # <<>>
    THEN dispatchFrom(invoke(w, registered[i], faults, df), registered, i + 1,
                      type, faults, df)
    ELSE dispatchFrom(w, registered, i + 1, type, faults, df)
dispatchEvent(w, type, faults, df) ==
    dispatchFrom(w, w.listeners, 1, type, faults, df)

-----------------------------------------------------------------------------
(* Deferred callbacks: animation frames, the observer, the debounce timer *)

NoTrack == [playbackRate |-> 1, currentTime |-> 0, playState |-> "none",
            cancelled |-> FALSE]
NoTracks == [n \in TrackNames |-> NoTrack]

\* the frame requested by setInitialState (lines 216-225); `scrolledPast` is
\* rect.top < 0.  An exception here is not caught by the controller.
RECURSIVE initialSeekFrom(_, _, _)
initialSeekFrom(w, i, faults) ==
    IF i > Len(w.animations) THEN w
    ELSE LET r == seekToEndState(w, w.animations[i], w.isTriggered,
                                 faults[w.animations[i]])
         IN  IF r.threw THEN r.w ELSE initialSeekFrom(r.w, i + 1, faults)
initialStateFrame_Unguarded(w, scrolledPast, faults) ==
    initialSeekFrom([w EXCEPT !.isTriggered = scrolledPast], 1, faults)
initialStateFrame(w, scrolledPast, faults) ==
    IF w.isDestroyed \/ ~w.sentinelElement THEN w
    ELSE initialSeekFrom([w EXCEPT !.isTriggered = scrolledPast], 1, faults)

\* the frame requested by observerCallback (lines 199-206)
RECURSIVE entriesFrom(_, _, _, _, _)
entriesFrom(w, entries, i, faults, df) ==
    IF i > Len(entries) THEN w
    ELSE LET w1 == [w EXCEPT !.isTriggered = ~entries[i]]
         IN  entriesFrom(IF w.isTriggered # w1.isTriggered
                         THEN updateAnimationState(w1, faults, df) ELSE w1,
                         entries, i + 1, faults, df)
observerFrame_Intersecting(w, entries, faults, df) ==
    IF w.isDestroyed THEN w
    ELSE entriesFrom(w, [i \in 1..Len(entries) |-> ~entries[i]], 1, faults, df)
observerFrame(w, entries, faults, df) ==
    IF w.isDestroyed THEN w ELSE entriesFrom(w, entries, 1, faults, df)

\* observerCallback (lines 197-207): entries[i] is entry.isIntersecting
observerCallback(w, entries) ==
    IF w.isDestroyed THEN w
    ELSE [w EXCEPT !.rafQueue =
             Append(@, [kind |-> "observer", entries |-> entries])]

\* `later` of the debounce helper (debounce.ts:21-24)
later(w, faults, df) ==
    performMouseLeaveActions([w EXCEPT !.timeout = FALSE], faults, df)

-----------------------------------------------------------------------------
(* Capability detection *)

\* what the probes of CapabilityDetector find in a host
Probes ==
    [animate : BOOLEAN, startViewTransition : BOOLEAN,
     IntersectionObserver : BOOLEAN, prefersReducedMotion : BOOLEAN,
     effectComposite : BOOLEAN, negativePlaybackRate : BOOLEAN]

\* the leveling policy of detect() (CapabilityDetector.ts:47-53)
level_NoEnhanced(c) ==
    IF c.viewTransitions /\ c.webAnimations THEN "premium"
    ELSE IF c.webAnimations THEN "standard"
    ELSE "fallback"
level(c) ==
    IF c.viewTransitions /\ c.webAnimations THEN "premium"
    ELSE IF c.webAnimations /\ c.composite THEN "enhanced"
    ELSE IF c.webAnimations THEN "standard"
    ELSE "fallback"

\* CapabilityDetector.detect() on an empty cache: _testComposite and
\* _testNegativePlaybackRate report false without web animations
detect(p) ==
    LET c == [webAnimations |-> p.animate,
              viewTransitions |-> p.startViewTransition,
              intersectionObserver |-> p.IntersectionObserver,
              reducedMotion |-> p.prefersReducedMotion,
              composite |-> p.animate /\ p.effectComposite,
              supportsNegativePlaybackRate |-> p.animate /\ p.negativePlaybackRate]
    IN  [webAnimations |-> c.webAnimations,
         viewTransitions |-> c.viewTransitions,
         intersectionObserver |-> c.intersectionObserver,
         reducedMotion |-> c.reducedMotion, composite |-> c.composite,
         supportsNegativePlaybackRate |-> c.supportsNegativePlaybackRate,
         level |-> level(c)]

\* the animate() calls of the probes: _testComposite and
\* _testNegativePlaybackRate each animate a throw-away element when web
\* animations are available
probeAnimateCalls(p) == IF p.animate THEN 2 ELSE 0

\* CapabilityDetector.detect(): the cached value if there is one, else the
\* probes are run and their result is cached
detectOnce_NoCache(w, p) ==
    [w EXCEPT !.cache = {detect(p)},
              !.probeRuns = @ + 1,
              !.animateCalls = @ + probeAnimateCalls(p)]
detectOnce(w, p) ==
    IF w.cache # {} THEN w
    ELSE [w EXCEPT !.cache = {detect(p)},
                   !.probeRuns = @ + 1,
                   !.animateCalls = @ + probeAnimateCalls(p)]

-----------------------------------------------------------------------------
(* Construction *)

\* a host fault during construction: animate() or pause() throwing for a track,
\* or the IntersectionObserver constructor throwing
NoConstructFault == [step |-> "none", at |-> "target"]
ConstructFaults ==
    {NoConstructFault, [step |-> "observer", at |-> "target"]}
    \cup [step : {"animate", "pause"}, at : TrackNames]

\* the host faults met while constructing with `opts`: animate() or pause()
\* throwing is paired with the click trigger (which wires no listener), the
\* IntersectionObserver constructor throwing with the scroll trigger
ConstructFaultsFor(opts) ==
    CASE opts.trigger.type = "click" ->
            {NoConstructFault} \cup [step : {"animate", "pause"}, at : TrackNames]
      [] opts.trigger.type = "scroll" ->
            {NoConstructFault, [step |-> "observer", at |-> "target"]}
      [] OTHER -> {NoConstructFault}

checkPrerequisites_AnimationOnly(w) == w.capabilities.webAnimations
checkPrerequisites(w) ==
    IF w.options.trigger.type = "scroll"
    THEN w.capabilities.webAnimations /\ w.capabilities.intersectionObserver
    ELSE w.capabilities.webAnimations

\* setupElements(): every declared selector goes through the sandbox with the
\* default context, the whole document
RECURSIVE resolveFrom(_, _)
\* the context of queryElementSafely(selector) when the caller passes none
defaultContext == Document

resolveFrom_Unchecked(w, i) ==
    IF i > Len(w.options.selectors) THEN w
    ELSE LET key == w.options.selectors[i][1]
             el == IF validateSelectorSyntax(w.options.selectors[i][2]).ok
                   THEN querySelector(defaultContext, w.options.selectors[i][2])
                   ELSE Null
         IN  resolveFrom(IF el # Null THEN [w EXCEPT !.elements[key] = el] ELSE w,
                         i + 1)
resolveFrom(w, i) ==
    IF i > Len(w.options.selectors) THEN w
    ELSE LET key == w.options.selectors[i][1]
             q == queryElementSafely(w.allowedRootElements, w.validatedElements,
                                     w.options.selectors[i][2], defaultContext)
             w1 == [w EXCEPT !.validatedElements = q.validated]
         IN  resolveFrom(IF q.result # Null
                         THEN [w1 EXCEPT !.elements[key] = q.result] ELSE w1,
                         i + 1)
setupElements_NoCap(w) == Ok(resolveFrom(w, 1))
setupElements(w) ==
    IF Len(w.options.selectors) > MAX_ELEMENTS_TO_ANIMATE
    THEN ThrownAs(w, "InvalidParameterError")
    ELSE Ok(resolveFrom(w, 1))

\* setupViewTransitions()
setupViewTransitions(w) ==
    IF w.capabilities.viewTransitions /\ w.options.viewTransitionName # ""
    THEN Ok([w EXCEPT !.attrs.viewTransitionName = w.options.viewTransitionName])
    ELSE Ok(w)

\* element.animate(...); animation.pause(); this.animations.set(key, animation)
createTrack(w, key, cf) ==
    IF cf.step = "animate" /\ cf.at = key
    THEN Thrown([w EXCEPT !.animateCalls = @ + 1])
    ELSE LET w1 == [w EXCEPT !.tracks[key] = animate, !.animateCalls = @ + 1]
         IN  IF cf.step = "pause" /\ cf.at = key THEN Thrown(w1)
             ELSE Ok([w1 EXCEPT !.tracks[key] = pause(@),
                                !.animations = Append(@, key)])

\* the try block of createAnimations (lines 152-164)
RECURSIVE createFrom(_, _, _)
createFrom_EveryDeclared(w, i, cf) ==
    IF i > Len(w.options.animations) THEN Ok(w)
    ELSE LET key == w.options.animations[i]
         IN  IF key = "target"
             THEN createFrom(w, i + 1, cf)
             ELSE LET r == createTrack(w, key, cf)
                  IN  IF r.threw THEN r ELSE createFrom(r.w, i + 1, cf)
createFrom(w, i, cf) ==
    IF i > Len(w.options.animations) THEN Ok(w)
    ELSE LET key == w.options.animations[i]
         IN  IF key = "target" \/ w.elements[key] = Null
             THEN createFrom(w, i + 1, cf)
             ELSE LET r == createTrack(w, key, cf)
                  IN  IF r.threw THEN r ELSE createFrom(r.w, i + 1, cf)

\* createAnimations(): a failure is counted and marked here, and not rethrown
createAnimations(w, cf) ==
    LET r0 == createTrack(w, "target", cf)
        r == IF r0.threw THEN r0 ELSE createFrom(r0.w, 1, cf)
    IN  IF r.threw
        THEN Ok(handleFallback(handleError(r.w, NoDestroyFault), "error").w)
        ELSE r

Listener(type, handler) == [type |-> type, handler |-> handler]

\* setInitialState(): request the frame of the initial geometric pass
setInitialState(w) ==
    IF ~w.sentinelElement \/ w.isDestroyed THEN w
    ELSE [w EXCEPT !.rafQueue = Append(@, [kind |-> "initial", entries |-> <<>>])]

\* setupIntersectionObserver(trigger)
setupIntersectionObserver(w, cf) ==
    LET w1 == [w EXCEPT !.sentinelElement = TRUE, !.sentinelInDocument = TRUE]
    IN  IF cf.step = "observer" THEN Thrown(w1)
        ELSE Ok(setInitialState([w1 EXCEPT !.observer = TRUE,
                                           !.observing = TRUE]))

\* setupTrigger(): the switch has a case for scroll and for hover only
setupTrigger(w, cf) ==
    CASE w.options.trigger.type = "scroll" -> setupIntersectionObserver(w, cf)
      [] w.options.trigger.type = "hover" ->
            Ok([w EXCEPT !.listeners =
                   @ \o <<Listener("mouseenter", "triggerMouseEnter"),
                          Listener("mouseleave", "triggerMouseLeave")>>])
      [] OTHER -> Ok(w)

\* attachHoverListeners()
attachHoverListeners(w) ==
    IF w.options.revertOnHover
    THEN Ok([w EXCEPT !.listeners =
                @ \o <<Listener("mouseenter", "handleMouseEnter"),
                       Listener("mouseleave", "handleMouseLeave")>>])
    ELSE Ok(w)

\* this.targetElement.setAttribute("data-animation-ready", "true")
markReady(w) ==
    Ok([w EXCEPT !.attrs.ready = TRUE])

\* initialize(): the Ready initialization sequence inside one try block
initialize(w, cf) ==
    LET s2(x) == setupViewTransitions(x)
        s3(x) == createAnimations(x, cf)
        s4(x) == setupTrigger(x, cf)
        s5(x) == attachHoverListeners(x)
        s6(x) == markReady(x)
        r == Then(Then(Then(Then(Then(setupElements(w), s2), s3), s4), s5), s6)
    IN  IF r.threw
        THEN handleFallback(handleError(r.w, NoDestroyFault), "error").w
        ELSE r.w

\* the catch block of the constructor (lines 100-103)
constructorCatch(w) ==
    LET r == handleFallback(handleError(w, NoDestroyFault), "error")
    IN  [w |-> r.w, threw |-> r.threw, fatal |-> TRUE]

\* the branch of the constructor on the capabilities (lines 85-91)
selectMode_IgnoreReducedMotion(w, cf) ==
    IF checkPrerequisites(w) THEN initialize(w, cf)
    ELSE handleFallback(w, "api-unavailable").w
selectMode(w, cf) ==
    IF w.capabilities.reducedMotion THEN handleReducedMotion(w)
    ELSE IF checkPrerequisites(w) THEN initialize(w, cf)
    ELSE handleFallback(w, "api-unavailable").w

\* new AegisAnimator(targetElement, options) in a host where the probes of
\* CapabilityDetector find `p`
constructor(w, target, opts, p, cf) ==
    LET v == validateElement(target, opts.id)
    IN  IF ~v.ok THEN constructorCatch(w)
        ELSE LET w1 == [w EXCEPT !.targetElement = v.value, !.options = opts]
                 ev == ElementValidator(<<w1.targetElement>>)
             IN  IF ~ev.ok THEN constructorCatch(w1)
                 ELSE LET d == detectOnce(w1, p)
                          w2 == [d EXCEPT
                                   !.allowedRootElements = ev.value,
                                   !.validatedElements = {},
                                   !.abortController = "active",
                                   !.capabilities = CHOOSE c \in d.cache : TRUE,
                                   !.debouncedMouseLeave = opts.revertOnHover]
                          w3 == selectMode(w2, cf)
                      IN  [w |-> w3, threw |-> FALSE,
                           fatal |-> w3.errorCount > 0]

-----------------------------------------------------------------------------
(* Inputs *)

\* values handed to the constructor as its target: null, a text node, the
\* <html> element, <div id="card">, <script id="s"> and <div id="root">
Targets == {Null, 9, 1, 5, 7, 8}

ElevenSelectors ==
    <<<<"k1", "#title">>, <<"k2", "#title">>, <<"k3", "#title">>,
      <<"k4", "#title">>, <<"k5", "#title">>, <<"k6", "#title">>,
      <<"k7", "#title">>, <<"k8", "#title">>, <<"k9", "#title">>,
      <<"k10", "#title">>, <<"k11", "#title">>>>

\* options.selectors, as Object.entries lists them
SelectorMaps ==
    {<<>>,
     <<<<"child", "#title">>>>,
     <<<<"child", "p">>>>,
     <<<<"child", "#nephew">>>>,
     <<<<"child", "#s">>>>,
     <<<<"child", "#id[attr=">>>>,
     <<<<"child", "#title">>, <<"icon", "#card">>>>,
     ElevenSelectors}

\* the two-track configuration, with every trigger kind, with and without
\* revertOnHover; a zero duration is paired with the plain hover trigger
BehaviourOptions ==
    {o \in [id : {NoId},
            selectors : {<<<<"child", "#title">>>>},
            animations : {<<"target", "child">>},
            timing : [duration : {0, 300}],
            trigger : [type : {"hover", "click", "scroll"}],
            revertOnHover : BOOLEAN,
            viewTransitionName : {"hero"}] :
        o.timing.duration = 0 => (o.trigger.type = "hover" /\ ~o.revertOnHover)}

\* every selector map and identity check, with the trigger that wires nothing
ResolutionOptions ==
    [id : {NoId, "card"},
     selectors : SelectorMaps,
     animations : {<<"target">>, <<"target", "child">>},
     timing : [duration : {300}],
     trigger : [type : {"click"}],
     revertOnHover : {FALSE},
     viewTransitionName : {"hero"}]

OptionsSet == BehaviourOptions \cup ResolutionOptions

NoOptions ==
    [id |-> NoId, selectors |-> <<>>, animations |-> <<"target">>,
     timing |-> [duration |-> 0], trigger |-> [type |-> "click"],
     revertOnHover |-> FALSE, viewTransitionName |-> ""]

\* the hosts a controller is constructed in: the modern host and the hosts
\* lacking exactly one probed feature, with either motion preference
\* (composite support never changes what the controller does: it only adds a
\* field to the options handed to animate())
Missing(p) ==
    Cardinality({f \in {"animate", "startViewTransition", "IntersectionObserver",
                        "effectComposite", "negativePlaybackRate"} : ~p[f]})
Hosts == {p \in Probes : p.effectComposite /\ Missing(p) <= 1}
CapabilitySets == {detect(p) : p \in Hosts}

NoCapabilities ==
    [webAnimations |-> FALSE, viewTransitions |-> FALSE,
     intersectionObserver |-> FALSE, reducedMotion |-> FALSE,
     composite |-> FALSE, supportsNegativePlaybackRate |-> FALSE,
     level |-> "unknown"]

NoAttrs == [ready |-> FALSE, disabled |-> "none", classes |-> {},
            viewTransitionName |-> ""]

\* entries[i] is the isIntersecting flag of the i-th delivered entry
EntryLists ==
    UNION {[1..n -> BOOLEAN] : n \in 1..MaxPending}

\* what waits in the frame queue: one per initial-state pass, one per entry
RECURSIVE Pending(_)
Pending(queue) ==
    IF queue = <<>> THEN 0
    ELSE (IF Head(queue).kind = "initial" THEN 1 ELSE Len(Head(queue).entries))
         + Pending(Tail(queue))

\* root lists handed to new ElementValidator(...)
RootLists ==
    UNION {[1..n -> Elements] : n \in 0..MaxRoots}

\* query contexts: the document, the body and two sibling containers
Contexts == {Document, 2, 3, 5}

\* the selectors handed to a stand-alone validator
QuerySelectors ==
    {"#nephew", "#card", "#title", "#s", "#missing", "p", "", "  ", "#id[attr="}

\* the host of the first page load: every probed feature, no reduced motion
ModernHost ==
    [animate |-> TRUE, startViewTransition |-> TRUE, IntersectionObserver |-> TRUE,
     prefersReducedMotion |-> FALSE, effectComposite |-> TRUE,
     negativePlaybackRate |-> TRUE]

\* an entry of lastCall: the operation, the object it returned or left cached,
\* whether it threw and whether it ran the probes
NoCall ==
    [op |-> "none", value |-> NoCapabilities, threw |-> FALSE, fresh |-> FALSE]

\* the empty registry
NoInstances == [el \in Elements |-> Null]

\* the selectors handed to Aegis.attach: two containers, a paragraph, the
\* <script> and a selector that matches nothing
AttachSelectors == {"#card", "#other", "#title", "#s", "#missing"}

\* the configuration of the attached controllers
AttachOptions ==
    [id |-> NoId, selectors |-> <<<<"child", "#title">>>>,
     animations |-> <<"target", "child">>, timing |-> [duration |-> 300],
     trigger |-> [type |-> "hover"], revertOnHover |-> FALSE,
     viewTransitionName |-> "hero"]

NoQuery == [selector |-> "", context |-> Document, result |-> Null,
            matched |-> Null, liveQuery |-> FALSE, threw |-> FALSE]

-----------------------------------------------------------------------------
(* The state machine *)

Init ==
    /\ allowedRootElements = <<>>
    /\ validatedElements = {}
    /\ lastQuery = NoQuery
    /\ phase = "new"
    /\ targetElement = Null
    /\ options = NoOptions
    /\ capabilities = NoCapabilities
    /\ abortController = "undefined"
    /\ debouncedMouseLeave = FALSE
    /\ elements = NoElements
    /\ animations = <<>>
    /\ sentinelElement = FALSE
    /\ observer = FALSE
    /\ isHovering = FALSE
    /\ isTriggered = FALSE
    /\ isDestroyed = FALSE
    /\ errorCount = 0
    /\ animationCount = 0
    /\ attrs = NoAttrs
    /\ tracks = NoTracks
    /\ listeners = <<>>
    /\ observing = FALSE
    /\ sentinelInDocument = FALSE
    /\ rafQueue = <<>>
    /\ timeout = FALSE
    /\ cache = {}
    /\ probeRuns = 0
    /\ host = ModernHost
    /\ lastCall = NoCall
    /\ instances = NoInstances
    /\ controllers = <<>>
    /\ dTimeout = Null
    /\ timers = {}
    /\ clock = 0
    /\ history = <<>>
    /\ pointerInside = FALSE
    /\ ctorThrew = FALSE
    /\ ctorFatal = FALSE

\* new AegisAnimator(target, opts)
Construct ==
    /\ phase = "new"
    /\ \E target \in Targets, opts \in OptionsSet, p \in Hosts :
       \E cf \in ConstructFaultsFor(opts) :
          LET r == constructor(World, target, opts, p, cf)
          IN  /\ Commit(r.w)
              /\ ctorThrew' = r.threw
              /\ ctorFatal' = r.fatal
    /\ phase' = "constructed"
    /\ UNCHANGED <<lastQuery, auxVars>>

\* CapabilityDetector.detect() called by other code of the page before the
\* controller is constructed
Detect ==
    /\ phase = "new"
    /\ cache = {}
    /\ \E p \in Hosts : Commit(detectOnce(World, p))
    /\ UNCHANGED <<lastQuery, phase, ctorThrew, ctorFatal, auxVars>>

\* the instance exists for its owner and for the host's callbacks
Live == phase = "constructed" /\ ~ctorThrew

\* One handler call under every host behaviour: every fault of the tracks the
\* controller holds and, when the call trips the circuit breaker, every fault
\* of the teardown (a call that destroys nothing meets no teardown fault).
Call(handler(_, _)) ==
    \E faults \in (IF animations = <<>> THEN {NoFaults} ELSE Faults) :
        LET w == handler(faults, NoDestroyFault)
        IN  IF w.isDestroyed # isDestroyed
            THEN \E df \in DestroyFaults : Commit(handler(faults, df))
            ELSE Commit(w)

\* animator.destroy(), called by the owner or the registry
Destroy ==
    /\ Live
    /\ \E df \in DestroyFaults : Commit(destroy(World, df))
    /\ UNCHANGED <<lastQuery, phase, ctorThrew, ctorFatal, auxVars>>

\* the host dispatches mouseenter to the target element
MouseEnter ==
    /\ Live
    /\ animationCount < MaxAnimationCount
    /\ LET handler(faults, df) == dispatchEvent(World, "mouseenter", faults, df)
       IN  Call(handler)
    /\ UNCHANGED <<lastQuery, phase, ctorThrew, ctorFatal, auxVars>>

\* the host dispatches mouseleave to the target element
MouseLeave ==
    /\ Live
    /\ animationCount < MaxAnimationCount
    /\ LET handler(faults, df) == dispatchEvent(World, "mouseleave", faults, df)
       IN  Call(handler)
    /\ UNCHANGED <<lastQuery, phase, ctorThrew, ctorFatal, auxVars>>

\* the host delivers intersection entries to observerCallback; a delivery the
\* host had queued may still arrive after disconnect()
ObserverCallback ==
    /\ Live
    /\ observer
    /\ \E entries \in EntryLists :
          /\ Pending(rafQueue) + Len(entries) <= MaxPending
          /\ Commit(observerCallback(World, entries))
    /\ UNCHANGED <<lastQuery, phase, ctorThrew, ctorFatal, auxVars>>

\* the host runs the oldest requested animation frame callback
AnimationFrame ==
    /\ Live
    /\ rafQueue # <<>>
    /\ animationCount < MaxAnimationCount
    /\ LET frame == Head(rafQueue)
           w == [World EXCEPT !.rafQueue = Tail(@)]
       IN  \/ /\ frame.kind = "initial"
              /\ \E scrolledPast \in BOOLEAN :
                    LET handler(faults, df) ==
                            initialStateFrame(w, scrolledPast, faults)
                    IN  Call(handler)
           \/ /\ frame.kind = "observer"
              /\ LET handler(faults, df) ==
                         observerFrame(w, frame.entries, faults, df)
                 IN  Call(handler)
    /\ UNCHANGED <<lastQuery, phase, ctorThrew, ctorFatal, auxVars>>

\* the debounce timer fires
TimerFire ==
    /\ Live
    /\ timeout
    /\ LET handler(faults, df) == later(World, faults, df)
       IN  Call(handler)
    /\ UNCHANGED <<lastQuery, phase, ctorThrew, ctorFatal, auxVars>>

Next ==
    \/ Detect
    \/ Construct
    \/ Destroy
    \/ MouseEnter
    \/ MouseLeave
    \/ ObserverCallback
    \/ AnimationFrame
    \/ TimerFire

Spec == Init /\ [][Next]_vars

-----------------------------------------------------------------------------
(* A stand-alone ElementValidator instance queried with any selector and any *)
(* context                                                                   *)

NewValidator ==
    /\ \E roots \in RootLists :
          LET ev == ElementValidator(roots)
          IN  /\ allowedRootElements' = IF ev.ok THEN ev.value ELSE <<>>
              /\ lastQuery' = [NoQuery EXCEPT !.threw = ~ev.ok]
    /\ validatedElements' = {}
    /\ UNCHANGED <<animatorVars, auxVars>>

QueryElementSafely ==
    /\ allowedRootElements # <<>>
    /\ \E selector \in QuerySelectors, context \in Contexts :
          LET q == queryElementSafely(allowedRootElements, validatedElements,
                                      selector, context)
          IN  /\ validatedElements' = q.validated
              /\ lastQuery' = [selector |-> selector, context |-> context,
                               result |-> q.result, matched |-> q.matched,
                               liveQuery |-> q.liveQuery, threw |-> FALSE]
    /\ UNCHANGED <<allowedRootElements>>
    /\ UNCHANGED <<animatorVars, auxVars>>

NextValidator == NewValidator \/ QueryElementSafely

SpecValidator == Init /\ [][NextValidator]_vars

-----------------------------------------------------------------------------
(* The controller under the pointer: a viewport-exit (scroll) controller in *)
(* a host without errors, which moves the pointer over the target and away *)
(* from it and delivers mouseenter and mouseleave accordingly.             *)

\* new AegisAnimator(card, opts) with a scroll trigger
PointerConstruct ==
    /\ phase = "new"
    /\ \E opts \in {o \in BehaviourOptions : o.trigger.type = "scroll"},
          p \in Hosts :
          LET r == constructor(World, 5, opts, p, NoConstructFault)
          IN  /\ Commit(r.w)
              /\ ctorThrew' = r.threw
              /\ ctorFatal' = r.fatal
    /\ phase' = "constructed"
    /\ UNCHANGED <<lastQuery, auxVars>>

\* the pointer moves over the target: the host dispatches mouseenter
PointerEnter ==
    /\ Live
    /\ ~pointerInside
    /\ animationCount < MaxAnimationCount
    /\ Commit(dispatchEvent(World, "mouseenter", NoFaults, NoDestroyFault))
    /\ pointerInside' = TRUE
    /\ UNCHANGED <<lastQuery, phase, ctorThrew, ctorFatal, detectorVars,
                   registryVars, debounceVars>>

\* the pointer leaves the target: the host dispatches mouseleave
PointerLeave ==
    /\ Live
    /\ pointerInside
    /\ animationCount < MaxAnimationCount
    /\ Commit(dispatchEvent(World, "mouseleave", NoFaults, NoDestroyFault))
    /\ pointerInside' = FALSE
    /\ UNCHANGED <<lastQuery, phase, ctorThrew, ctorFatal, detectorVars,
                   registryVars, debounceVars>>

\* the frames, the observer and the timer of a host without errors
PointerFrame ==
    /\ Live
    /\ rafQueue # <<>>
    /\ animationCount < MaxAnimationCount
    /\ LET frame == Head(rafQueue)
           w == [World EXCEPT !.rafQueue = Tail(@)]
       IN  \/ /\ frame.kind = "initial"
              /\ \E scrolledPast \in BOOLEAN :
                    Commit(initialStateFrame(w, scrolledPast, NoFaults))
           \/ /\ frame.kind = "observer"
              /\ Commit(observerFrame(w, frame.entries, NoFaults, NoDestroyFault))
    /\ UNCHANGED <<lastQuery, phase, ctorThrew, ctorFatal, auxVars>>

PointerTimerFire ==
    /\ Live
    /\ timeout
    /\ Commit(later(World, NoFaults, NoDestroyFault))
    /\ UNCHANGED <<lastQuery, phase, ctorThrew, ctorFatal, auxVars>>

NextPointer ==
    \/ PointerConstruct
    \/ PointerEnter
    \/ PointerLeave
    \/ ObserverCallback
    \/ PointerFrame
    \/ PointerTimerFire

SpecPointer == Init /\ [][NextPointer]_vars

-----------------------------------------------------------------------------
(* Aegis: the registry of the controllers created by attach(). A controller  *)
(* is known here by the element it was created for and its isDestroyed     *)
(* flag; a handle is the number of the controller its closure captured.    *)

Registry == [instances |-> instances, controllers |-> controllers]

\* instance.destroy(), as far as the registry can see it
destroyInstance(reg, i) == [reg EXCEPT !.controllers[i].isDestroyed = TRUE]

\* Aegis.attach(selector, options)
attach(reg, selector, opts) ==
    LET element == querySelector(Document, selector)
    IN  IF element = Null THEN [reg |-> reg, handle |-> Null]
        ELSE LET old == reg.instances[element]
                 r1 == IF old # Null THEN destroyInstance(reg, old) ELSE reg
                 c == constructor(World, element, opts, host, NoConstructFault)
                 i == Len(r1.controllers) + 1
             IN  IF c.threw THEN [reg |-> r1, handle |-> Null]
                 ELSE [reg |-> [instances |-> [r1.instances EXCEPT ![element] = i],
                                controllers |->
                                    Append(r1.controllers,
                                           [element |-> element,
                                            isDestroyed |-> c.w.isDestroyed])],
                       handle |-> i]

\* the destroy() of the handle attach() returned for controller i
handleDestroy(reg, i) ==
    LET r1 == destroyInstance(reg, i)
    IN  [r1 EXCEPT !.instances[reg.controllers[i].element] = Null]

\* Aegis.destroy(element)
aegisDestroy(reg, element) ==
    IF reg.instances[element] # Null
    THEN [destroyInstance(reg, reg.instances[element])
             EXCEPT !.instances[element] = Null]
    ELSE reg

\* Aegis.destroyAll()
destroyAll(reg) ==
    [instances |-> NoInstances,
     controllers |->
        [i \in DOMAIN reg.controllers |->
            IF \E el \in Elements : reg.instances[el] = i
            THEN [reg.controllers[i] EXCEPT !.isDestroyed = TRUE]
            ELSE reg.controllers[i]]]

\* Aegis.getInstance(element)
getInstance(reg, element) == reg.instances[element]

CommitRegistry(reg) ==
    /\ instances' = reg.instances
    /\ controllers' = reg.controllers
    /\ UNCHANGED <<validatorVars, animatorVars, detectorVars, debounceVars,
                   pointerVars>>

Attach ==
    /\ Len(controllers) < MaxControllers
    /\ \E selector \in AttachSelectors :
          CommitRegistry(attach(Registry, selector, AttachOptions).reg)

HandleDestroy ==
    /\ controllers # <<>>
    /\ \E i \in 1..Len(controllers) : CommitRegistry(handleDestroy(Registry, i))

AegisDestroy ==
    /\ controllers # <<>>
    /\ \E element \in Elements : CommitRegistry(aegisDestroy(Registry, element))

DestroyAll ==
    /\ controllers # <<>>
    /\ CommitRegistry(destroyAll(Registry))

NextRegistry == Attach \/ HandleDestroy \/ AegisDestroy \/ DestroyAll

SpecRegistry == Init /\ [][NextRegistry]_vars

-----------------------------------------------------------------------------
(* debounce(func, wait): one debounced function, its callers and the host  *)
(* timers. The host runs a timer's callback when its delay has elapsed,    *)
(* before time moves on.                                                   *)

\* the delay the function was debounced with, in ticks of the clock
wait == 2

\* the arguments of a call
Arguments == {1, 2}

Debounced == [timeout |-> dTimeout, timers |-> timers, history |-> history]

\* globalThis.setTimeout(callback, delay): a timer with a fresh id
setTimeout(d, now, delay, args) ==
    LET id == Cardinality({k \in 1..Len(d.history) :
                              d.history[k].kind = "call"}) + 1
    IN  [d EXCEPT !.timers = @ \cup {[id |-> id, due |-> now + delay,
                                      args |-> args]},
                  !.timeout = id]

\* clearTimeout(id)
clearTimeout(d, id) == [d EXCEPT !.timers = {t \in @ : t.id # id}]

\* executedFunction(...args) (debounce.ts:20-29)
executedFunction_NoClear(d, now, args) ==
    setTimeout([d EXCEPT !.history = Append(@, [kind |-> "call", at |-> now,
                                                args |-> args])],
               now, wait, args)
executedFunction(d, now, args) ==
    LET d1 == IF d.timeout # Null THEN clearTimeout(d, d.timeout) ELSE d
    IN  setTimeout([d1 EXCEPT !.history = Append(@, [kind |-> "call", at |-> now,
                                                     args |-> args])],
                   now, wait, args)

\* executedFunction.cancel() (debounce.ts:34-39)
executedFunctionCancel_KeepTimer(d, now) ==
    [d EXCEPT !.timeout = Null,
              !.history = Append(@, [kind |-> "cancel", at |-> now, args |-> 0])]
executedFunctionCancel(d, now) ==
    LET d1 == IF d.timeout # Null
              THEN [clearTimeout(d, d.timeout) EXCEPT !.timeout = Null]
              ELSE d
    IN  [d1 EXCEPT !.history = Append(@, [kind |-> "cancel", at |-> now,
                                          args |-> 0])]

\* the host runs timer t: `later` of the call that set it (debounce.ts:21-24)
\* clears `timeout` and calls func with the arguments of that call
runTimer(d, now, t) ==
    [d EXCEPT !.timers = @ \ {t},
              !.timeout = Null,
              !.history = Append(@, [kind |-> "invoke", at |-> now,
                                     args |-> t.args])]

Uses(d) == Cardinality({k \in 1..Len(d.history) : d.history[k].kind # "invoke"})

CommitDebounced(d) ==
    /\ dTimeout' = d.timeout
    /\ timers' = d.timers
    /\ history' = d.history
    /\ UNCHANGED <<validatorVars, animatorVars, detectorVars, registryVars,
                   pointerVars>>

DebouncedCall ==
    /\ Uses(Debounced) < MaxCalls
    /\ \E args \in Arguments : CommitDebounced(executedFunction(Debounced, clock, args))
    /\ UNCHANGED clock

DebouncedCancel ==
    /\ Uses(Debounced) < MaxCalls
    /\ CommitDebounced(executedFunctionCancel(Debounced, clock))
    /\ UNCHANGED clock

\* a timer whose delay has elapsed runs
TimerRun ==
    /\ \E t \in timers :
          /\ t.due <= clock
          /\ CommitDebounced(runTimer(Debounced, clock, t))
    /\ UNCHANGED clock

\* time passes, once no timer is due
Tick ==
    /\ clock < MaxTime
    /\ \A t \in timers : t.due > clock
    /\ clock' = clock + 1
    /\ UNCHANGED <<validatorVars, animatorVars, detectorVars, registryVars,
                   dTimeout, timers, history, pointerVars>>

NextDebounce == DebouncedCall \/ DebouncedCancel \/ TimerRun \/ Tick

SpecDebounce == Init /\ [][NextDebounce]_vars

-----------------------------------------------------------------------------
(* The capability detector on its own: calls of detect() from any code of  *)
(* the page while the host changes under it                                *)

\* the object a detect() call returns: the cached one
detected(w) == CHOOSE c \in w.cache : TRUE

\* an assignment to a field of the object detect() returned: the object was
\* frozen before it was cached, so the write changes nothing and, in module
\* (strict) code, throws a TypeError
writeFrozen(c, field, value) == [value |-> c, threw |-> TRUE]

\* a feature appears in, or disappears from, the host (a polyfill is loaded,
\* the user changes the motion preference, a test replaces a global)
HostChange ==
    /\ \E f \in DOMAIN host : host' = [host EXCEPT ![f] = ~@]
    /\ UNCHANGED <<validatorVars, animatorVars, lastCall, registryVars,
                   debounceVars, pointerVars>>

\* CapabilityDetector.detect()
DetectCall ==
    /\ cache = {} => probeRuns < MaxProbeRuns
    /\ LET w == detectOnce(World, host)
       IN  /\ Commit(w)
           /\ lastCall' = [op |-> "detect", value |-> detected(w),
                            threw |-> FALSE, fresh |-> w.probeRuns # probeRuns]
    /\ UNCHANGED <<lastQuery, phase, ctorThrew, ctorFatal, host, registryVars,
                   debounceVars, pointerVars>>

\* the holder of the returned object assigns to one of its boolean fields
WriteCached ==
    /\ cache # {}
    /\ \E f \in {"webAnimations", "viewTransitions", "composite", "reducedMotion"} :
          LET c == detected(World)
              r == writeFrozen(c, f, ~c[f])
          IN  /\ Commit([World EXCEPT !.cache = {r.value}])
              /\ lastCall' = [op |-> "write", value |-> r.value,
                               threw |-> r.threw, fresh |-> FALSE]
    /\ UNCHANGED <<lastQuery, phase, ctorThrew, ctorFatal, host, registryVars,
                   debounceVars, pointerVars>>

\* the explicit reset: (CapabilityDetector as any).cache = null
ResetCache ==
    /\ cache # {}
    /\ Commit([World EXCEPT !.cache = {}])
    /\ lastCall' = [NoCall EXCEPT !.op = "reset"]
    /\ UNCHANGED <<lastQuery, phase, ctorThrew, ctorFatal, host, registryVars,
                   debounceVars, pointerVars>>

NextDetector == HostChange \/ DetectCall \/ WriteCached \/ ResetCache

SpecDetector == Init /\ [][NextDetector]_vars

-----------------------------------------------------------------------------
(* Claims *)

InsideRoots(roots, el) == \E i \in 1..Len(roots) : contains(roots[i], el)

\* the element the live query of the last call matched, recomputed from the
\* host document
LiveMatch ==
    IF trim(lastQuery.selector) = "" \/ SelectorSyntaxError(lastQuery.selector)
    THEN Null
    ELSE querySelector(lastQuery.context, lastQuery.selector)

\* C1: queryElementSafely returns null or an element inside one of the
\* validator's roots whose tag is not script/iframe/object/embed, and it
\* returns null whenever the matched element lies outside every root.
C1_QueryStaysInsideRoots ==
    /\ lastQuery.result # Null =>
          /\ InsideRoots(allowedRootElements, lastQuery.result)
          /\ Tag[lastQuery.result] \notin {"script", "iframe", "object", "embed"}
    /\ (LiveMatch # Null /\ ~InsideRoots(allowedRootElements, LiveMatch)) =>
          lastQuery.result = Null

\* a valid selector whose first match in the document is outside the root
C1_Witness ==
    /\ allowedRootElements = <<5>>
    /\ lastQuery.selector = "p"
    /\ lastQuery.context = Document
    /\ LiveMatch = 4
    /\ lastQuery.result = Null

\* C2: every element in the resolved-children map is the controller's target
\* or a descendant of it; an element of another subtree is never stored.
C2_ResolvedChildrenInsideTarget ==
    \A k \in ChildKeys :
        elements[k] # Null =>
            targetElement # Null /\ contains(targetElement, elements[k])

\* a Ready controller whose declared selector matches an element of a sibling
\* subtree, which was not stored
C2_Witness ==
    /\ attrs.ready
    /\ targetElement = 5
    /\ options.selectors = <<<<"child", "#nephew">>>>
    /\ querySelector(Document, "#nephew") = 4
    /\ elements = NoElements

\* the faults the host can show a handler call: those of the tracks the
\* controller holds, and those of a teardown unless destroy() would return at
\* its guard
HostFaults == IF animations = <<>> THEN {NoFaults} ELSE Faults
TeardownFaults == IF isDestroyed THEN {NoDestroyFault} ELSE DestroyFaults

\* the frames a host may still run: those in the queue
QueuedFrames == {rafQueue[i] : i \in 1..Len(rafQueue)}

\* C3: once destroy() has returned, no mouseenter, mouseleave, observer
\* callback, animation-frame callback or debounce-timer firing changes
\* isTriggered or isHovering or requests playback, whatever the host does.
C3_NoEffectAfterDestroy ==
    (Live /\ isDestroyed) =>
        \A faults \in HostFaults, df \in TeardownFaults :
            LET Inert(w) == /\ w.isTriggered = isTriggered
                            /\ w.isHovering = isHovering
                            /\ w.playback = <<>>
            IN  /\ Inert(dispatchEvent(World, "mouseenter", faults, df))
                /\ Inert(dispatchEvent(World, "mouseleave", faults, df))
                /\ Inert(later(World, faults, df))
                /\ \A entries \in EntryLists :
                      /\ observerCallback(World, entries).rafQueue = rafQueue
                      /\ Inert(observerFrame(World, entries, faults, df))
                /\ \A frame \in QueuedFrames :
                      IF frame.kind = "initial"
                      THEN \A scrolledPast \in BOOLEAN :
                              Inert(initialStateFrame(World, scrolledPast, faults))
                      ELSE Inert(observerFrame(World, frame.entries, faults, df))

\* a destroyed controller with a frame still queued and listeners detached
C3_Witness ==
    /\ Live /\ isDestroyed
    /\ abortController = "aborted"
    /\ options.revertOnHover
    /\ rafQueue # <<>>
    /\ isTriggered

\* C4: after destroy() has returned, the target element does not carry the
\* data-animation-ready attribute, whatever state the controller was in.
C4_NoReadyMarkerAfterDestroy == (Live /\ isDestroyed) => ~attrs.ready

\* C5: destroy() on a Ready controller, with no host operation throwing,
\* releases everything: the signal is aborted and no listener remains, the
\* observer is disconnected, every track is cancelled, the sentinel is out of
\* the document, no debounce timer is pending and both maps are empty.
C5_DestroyReleasesEverything ==
    (Live /\ ~isDestroyed /\ attrs.ready /\ attrs.disabled = "none") =>
        LET w == destroy(World, NoDestroyFault)
        IN  /\ w.isDestroyed
            /\ w.abortController = "aborted"
            /\ w.listeners = <<>>
            /\ ~w.observing
            /\ \A n \in TrackNames :
                  tracks[n].playState # "none" => w.tracks[n].cancelled
            /\ ~w.sentinelInDocument
            /\ ~w.timeout
            /\ w.animations = <<>>
            /\ w.elements = NoElements

\* a scroll controller with revertOnHover after a clean destroy()
C5_Witness ==
    /\ Live /\ isDestroyed
    /\ attrs.disabled = "none" /\ ~attrs.ready
    /\ options.trigger.type = "scroll" /\ options.revertOnHover
    /\ sentinelElement /\ ~sentinelInDocument
    /\ observer /\ ~observing
    /\ tracks["target"].cancelled /\ tracks["child"].cancelled
    /\ listeners = <<>> /\ animations = <<>> /\ elements = NoElements

\* C6: if one teardown step of destroy() fails on a Ready controller, every
\* remaining teardown step is still attempted.
C6_AllTeardownStepsAttempted ==
    (Live /\ ~isDestroyed /\ attrs.ready) =>
        \A df \in DestroyFaults :
            destroy(World, df).teardown.attempted = TeardownSteps

\* C7: a second destroy() performs no teardown step and leaves the controller,
\* its tracks, the document and the metrics as the first call left them.
C7_DestroyIdempotent == [][(isDestroyed /\ Destroy) => UNCHANGED vars]_vars

\* a destroyed controller whose first teardown stopped early, so that a
\* repeated teardown would still have something to do
C7_Witness ==
    /\ Live /\ isDestroyed
    /\ attrs.ready
    /\ animations # <<>>

\* C8: the controller destroys itself through the circuit breaker exactly when
\* its error count exceeds 3: a step that counts errors on a live controller
\* ends with the controller destroyed iff the count is then above 3.
C8_CircuitBreaker ==
    /\ [](errorCount > MAX_ANIMATION_RETRIES => isDestroyed)
    /\ [][(errorCount' # errorCount /\ ~isDestroyed) =>
             (isDestroyed' <=> errorCount' > MAX_ANIMATION_RETRIES)]_vars

\* the breaker has tripped
C8_Witness ==
    /\ Live /\ isDestroyed
    /\ errorCount = MAX_ANIMATION_RETRIES + 1

\* C9: a construction-time fatal error never escapes the constructor as an
\* exception; the element is marked data-animation-disabled="error".
C9_NoExceptionEscapesConstructor ==
    (phase = "constructed" /\ ctorFatal) =>
        (~ctorThrew /\ attrs.disabled = "error")

\* C10: after the constructor returns, the target carries exactly one of the
\* ready marker and a degraded marker.
C10_ExactlyOneMarker ==
    (Live /\ ~isDestroyed) => (attrs.ready <=> attrs.disabled = "none")

\* C11: when the capabilities read at construction report reduced motion, the
\* controller has no track, no listener, no observer and no sentinel, the
\* ready marker is never set, and the element carries
\* data-animation-disabled="reduced-motion".
C11_ReducedMotionInert ==
    capabilities.reducedMotion =>
        /\ animations = <<>>
        /\ tracks = NoTracks
        /\ listeners = <<>>
        /\ ~observer /\ ~observing /\ ~sentinelElement
        /\ ~attrs.ready
        /\ attrs.disabled = "reduced-motion"
        /\ "reduced-motion" \in attrs.classes

\* a scroll controller with revertOnHover built in a fully capable host that
\* prefers reduced motion
C11_Witness ==
    /\ Live
    /\ capabilities.reducedMotion
    /\ capabilities.webAnimations /\ capabilities.intersectionObserver
    /\ options.trigger.type = "scroll" /\ options.revertOnHover
    /\ attrs.disabled = "reduced-motion"

\* C12: a construction whose capabilities report reduced motion invokes
\* Element.prototype.animate on no element, whether the capability cache was
\* populated before or not.
C12_NoAnimateUnderReducedMotion ==
    phase = "new" =>
        \A target \in Targets, opts \in OptionsSet, p \in Hosts :
            LET r == constructor(World, target, opts, p, NoConstructFault)
            IN  r.w.capabilities.reducedMotion => r.w.animateCalls = 0

\* C13: when reduced motion is not preferred, the element is marked
\* api-unavailable, with no track and no listener, exactly when web animations
\* are missing or the trigger is scroll and the IntersectionObserver is
\* missing; otherwise the Ready initialization has run (and set the ready
\* marker or failed with the error marker).
C13_UnsupportedExactlyWhenPrerequisitesUnmet ==
    (capabilities # NoCapabilities /\ ~capabilities.reducedMotion) =>
        LET unmet == \/ ~capabilities.webAnimations
                     \/ /\ options.trigger.type = "scroll"
                        /\ ~capabilities.intersectionObserver
        IN  /\ attrs.disabled = "api-unavailable" <=> unmet
            /\ unmet => /\ animations = <<>> /\ tracks = NoTracks
                        /\ listeners = <<>> /\ ~observer /\ ~attrs.ready
            /\ (~unmet /\ ~isDestroyed) =>
                  (attrs.ready \/ attrs.disabled = "error")

\* a scroll controller in a host with web animations and no
\* IntersectionObserver
C13_Witness ==
    /\ Live
    /\ ~capabilities.reducedMotion
    /\ capabilities.webAnimations /\ ~capabilities.intersectionObserver
    /\ options.trigger.type = "scroll"
    /\ attrs.disabled = "api-unavailable"

\* the tracks the controller holds
HeldTracks == {animations[i] : i \in 1..Len(animations)}

\* C14: on a Ready hover controller without revertOnHover, with reverse
\* playback supported and a positive duration, every mouseenter sets
\* isTriggered and plays every track forward (playbackRate 1, from 0), and
\* every mouseleave clears isTriggered and plays every track in reverse
\* (playbackRate -1, from the end).
C14_HoverTriggerPlaysBothWays ==
    (/\ Live /\ ~isDestroyed /\ attrs.ready
     /\ options.trigger.type = "hover" /\ ~options.revertOnHover
     /\ capabilities.supportsNegativePlaybackRate /\ options.timing.duration > 0) =>
        LET enter == dispatchEvent(World, "mouseenter", NoFaults, NoDestroyFault)
            leave == dispatchEvent(World, "mouseleave", NoFaults, NoDestroyFault)
        IN  /\ enter.isTriggered
            /\ enter.playback = <<TRUE>>
            /\ \A n \in HeldTracks :
                  /\ enter.tracks[n].playbackRate = 1
                  /\ enter.tracks[n].currentTime = 0
                  /\ enter.tracks[n].playState = "running"
            /\ ~leave.isTriggered
            /\ leave.playback = <<FALSE>>
            /\ \A n \in HeldTracks :
                  /\ leave.tracks[n].playbackRate = -1
                  /\ leave.tracks[n].currentTime = options.timing.duration
                  /\ leave.tracks[n].playState = "running"

\* the hover controller after a mouseleave: both tracks running in reverse
C14_Witness ==
    /\ Live /\ ~isDestroyed /\ attrs.ready
    /\ options.trigger.type = "hover" /\ ~options.revertOnHover
    /\ capabilities.supportsNegativePlaybackRate
    /\ ~isTriggered
    /\ animationCount = 2
    /\ HeldTracks = {"target", "child"}
    /\ \A n \in HeldTracks :
          tracks[n].playbackRate = -1 /\ tracks[n].playState = "running"

\* C15: without reverse-playback support, or with a zero duration, no track
\* the controller holds is ever playing or has a negative playbackRate: each
\* is paused at 0 or at the duration.
C15_SeekOnlyWithoutReverseSupport ==
    (/\ capabilities # NoCapabilities
     /\ ~capabilities.supportsNegativePlaybackRate
           \/ options.timing.duration = 0) =>
        \A n \in HeldTracks :
            /\ tracks[n].playState # "running"
            /\ tracks[n].playbackRate >= 0
            /\ tracks[n].currentTime \in {0, options.timing.duration}

\* a triggered controller in a host without reverse playback, its tracks
\* seeked to the end and paused
C15_Witness ==
    /\ Live /\ ~isDestroyed
    /\ capabilities.webAnimations /\ ~capabilities.supportsNegativePlaybackRate
    /\ isTriggered /\ animationCount > 0
    /\ HeldTracks = {"target", "child"}
    /\ \A n \in HeldTracks :
          /\ tracks[n].currentTime = options.timing.duration
          /\ tracks[n].currentTime > 0
          /\ tracks[n].playState = "paused"

\* the playback requests a list of entries calls for when every change of
\* isTriggered requests one, unless `suppressed`: the new values, in order
RECURSIVE Changes(_, _, _)
Changes(prev, entries, suppressed) ==
    IF entries = <<>> THEN <<>>
    ELSE LET new == ~Head(entries)
         IN  (IF new # prev /\ ~suppressed THEN <<new>> ELSE <<>>)
             \o Changes(new, Tail(entries), suppressed)

HoverOverride == isHovering /\ options.revertOnHover

Commanded(w, n, toEnd) ==
    IF w.capabilities.supportsNegativePlaybackRate /\ w.options.timing.duration > 0
    THEN /\ w.tracks[n].playState = "running"
         /\ w.tracks[n].playbackRate = (IF toEnd THEN 1 ELSE -1)
         /\ w.tracks[n].currentTime =
               (IF toEnd THEN 0 ELSE w.options.timing.duration)
    ELSE /\ w.tracks[n].playState = "paused"
         /\ w.tracks[n].currentTime =
               (IF toEnd THEN w.options.timing.duration ELSE 0)

\* what C17 says of a mouseenter received while isTriggered holds
RevertOnEnter(w) ==
    /\ w.isHovering
    /\ ~w.timeout
    /\ w.isTriggered
    /\ w.playback # <<>> /\ ~w.playback[Len(w.playback)]
    /\ \A n \in HeldTracks : Commanded(w, n, FALSE)

\* C17 as stated: under revertOnHover a mouseenter received while isTriggered
\* sets isHovering, cancels the pending debounced leave, commands every track
\* toward the un-triggered state and leaves isTriggered alone; a mouseenter
\* received while ~isTriggered changes nothing.
C17_MouseEnterRevertsOrDoesNothing ==
    (Live /\ ~isDestroyed /\ attrs.ready /\ options.revertOnHover) =>
        LET w == dispatchEvent(World, "mouseenter", NoFaults, NoDestroyFault)
        IN  IF isTriggered THEN RevertOnEnter(w) ELSE w = World

\* C17 (amended): as above, the second half for the triggers other than hover;
\* with the hover trigger the mouseenter itself is the trigger and sets
\* isTriggered first.
C17_MouseEnterRevertsOrDoesNothingUnlessTrigger ==
    (Live /\ ~isDestroyed /\ attrs.ready /\ options.revertOnHover) =>
        LET w == dispatchEvent(World, "mouseenter", NoFaults, NoDestroyFault)
        IN  IF isTriggered THEN RevertOnEnter(w)
            ELSE options.trigger.type # "hover" => w = World

\* a triggered scroll controller over which the pointer has entered: hovering,
\* no timer pending, the tracks running in reverse
C17_Witness ==
    /\ Live /\ ~isDestroyed /\ attrs.ready /\ options.revertOnHover
    /\ options.trigger.type = "scroll"
    /\ isTriggered /\ isHovering /\ ~timeout
    /\ HeldTracks = {"target", "child"}
    /\ \A n \in HeldTracks : Commanded(World, n, FALSE)

Requests(w) == {w.playback[i] : i \in 1..Len(w.playback)}

\* C18: under revertOnHover a mouseleave itself never requests playback toward
\* the triggered state; the debounce timer, when it fires, requests it exactly
\* once iff the controller is then not hovering, not destroyed and triggered,
\* and leaves no timer pending; no timer is pending while hovering; one
\* mouseleave that leaves the controller triggered, followed by the timer,
\* replays the animation exactly once.
C18_ReassertOnlyWhenTimerFires ==
    (Live /\ options.revertOnHover /\ attrs.ready) =>
        /\ timeout => ~isHovering
        /\ \A faults \in HostFaults :
              LET leave == dispatchEvent(World, "mouseleave", faults, NoDestroyFault)
                  fire == later(World, faults, NoDestroyFault)
              IN  /\ TRUE \notin Requests(leave)
                  /\ fire.playback =
                        (IF ~isHovering /\ ~isDestroyed /\ isTriggered
                         THEN <<TRUE>> ELSE <<>>)
                  /\ ~fire.timeout
        /\ LET leave == dispatchEvent(World, "mouseleave", NoFaults, NoDestroyFault)
               fire == later([leave EXCEPT !.playback = <<>>], NoFaults,
                             NoDestroyFault)
           IN  (isHovering /\ ~isDestroyed /\ leave.isTriggered) =>
                  /\ leave.timeout /\ ~leave.isHovering
                  /\ fire.playback = <<TRUE>>
                  /\ \A n \in HeldTracks : Commanded(fire, n, TRUE)

\* a scroll controller triggered by the initial pass, hovered, left, and whose
\* timer has fired: the tracks play forward again though no trigger transition
\* was ever counted
C18_Witness ==
    /\ Live /\ ~isDestroyed /\ attrs.ready /\ options.revertOnHover
    /\ capabilities.supportsNegativePlaybackRate
    /\ isTriggered /\ ~isHovering /\ ~timeout
    /\ animationCount = 0
    /\ HeldTracks = {"target", "child"}
    /\ \A n \in HeldTracks : Commanded(World, n, TRUE)

\* C19: while isHovering under revertOnHover, a trigger transition (the frame
\* of an observer callback, or a listener of the hover trigger) commands no
\* track and requests no playback, and as long as no host call has failed the
\* tracks stay commanded toward the un-triggered state.
C19_HoverOverrideWins ==
    (Live /\ ~isDestroyed /\ HoverOverride) =>
        /\ \A faults \in HostFaults :
              LET Quiet(w) == w.playback = <<>> /\ w.tracks = tracks
              IN  /\ \A entries \in EntryLists :
                        Quiet(observerFrame(World, entries, faults, NoDestroyFault))
                  /\ Quiet(triggerMouseEnter(World, faults, NoDestroyFault))
                  /\ Quiet(triggerMouseLeave(World, faults, NoDestroyFault))
        /\ errorCount = 0 => \A n \in HeldTracks : Commanded(World, n, FALSE)

\* a hovered scroll controller whose trigger was cleared by an observer frame
\* during the hover: the tracks are still those of the hover override
C19_Witness ==
    /\ Live /\ ~isDestroyed /\ HoverOverride
    /\ options.trigger.type = "scroll"
    /\ ~isTriggered
    /\ errorCount = 0
    /\ HeldTracks = {"target", "child"}
    /\ \A n \in HeldTracks : Commanded(World, n, FALSE)

\* C20: on a Ready controller built with the click trigger, a click on the
\* target flips isTriggered and requests playback.
C20_ClickTriggerFlips ==
    (/\ Live /\ ~isDestroyed /\ attrs.ready /\ attrs.disabled = "none"
     /\ options.trigger.type = "click") =>
        LET w == dispatchEvent(World, "click", NoFaults, NoDestroyFault)
        IN  /\ w.isTriggered # isTriggered
            /\ w.playback # <<>>

SetupQueries(w) ==
    IF Len(w.options.selectors) > MAX_ELEMENTS_TO_ANIMATE THEN {}
    ELSE {[selector |-> w.options.selectors[i][2], context |-> defaultContext] :
            i \in {j \in 1..Len(w.options.selectors) :
                      queryElementSafely(w.allowedRootElements, {},
                                         w.options.selectors[j][2],
                                         defaultContext).liveQuery}}

\* C22: when a controller resolves its declared child selectors, no live
\* query runs with the whole document as its context: every live query runs
\* on the authorized root or inside it.
C22_NoDocumentWideQuery ==
    (/\ Live
     /\ capabilities # NoCapabilities /\ ~capabilities.reducedMotion
     /\ checkPrerequisites(World)) =>
        \A q \in SetupQueries(World) :
            /\ q.context # Document
            /\ IsContained(allowedRootElements, q.context)
\* the broad elements a validator must refuse as roots: the <body> and <html>
\* elements and the containers with id "app" or "root"
BroadRoots ==
    {el \in Elements : Tag[el] \in {"body", "html"} \/ Id[el] \in {"app", "root"}}

\* C23: constructing a validator fails whenever the root list is empty or
\* holds a broad element, so a failed construction leaves no validator and no
\* validator exists whose roots include the <body> or <html> element or a
\* container with id "app" or "root".
C23_NoValidatorOverBroadRoot ==
    /\ lastQuery.threw => allowedRootElements = <<>>
    /\ \A i \in 1..Len(allowedRootElements) :
          allowedRootElements[i] \notin BroadRoots
\* C24: for every combination of the probes, the level of the detected
\* capabilities is premium if viewTransitions and webAnimations, otherwise
\* enhanced if webAnimations and composite, otherwise standard if
\* webAnimations, otherwise fallback; two hosts that agree on these three
\* capabilities get the same level whatever their other probes say.
C24_LevelByPolicy ==
    \A c \in cache :
        /\ (c.viewTransitions /\ c.webAnimations) => c.level = "premium"
        /\ (~c.viewTransitions /\ c.webAnimations /\ c.composite)
              => c.level = "enhanced"
        /\ (~c.viewTransitions /\ c.webAnimations /\ ~c.composite)
              => c.level = "standard"
        /\ ~c.webAnimations => c.level = "fallback"
        /\ \A p \in Probes :
              (/\ detect(p).webAnimations = c.webAnimations
               /\ detect(p).viewTransitions = c.viewTransitions
               /\ detect(p).composite = c.composite) => detect(p).level = c.level

\* an enhanced host that prefers reduced motion and lacks the
\* IntersectionObserver and the negative playback rate
C24_Witness ==
    \E c \in cache :
        /\ c.level = "enhanced" /\ c.reducedMotion
        /\ ~c.intersectionObserver /\ ~c.supportsNegativePlaybackRate
\* C25: detect() is memoized process-wide. While the cache is populated, a
\* step of any code of the page (a detect() call in a changed host, a write
\* to the returned object) leaves the cached value as it is and runs no
\* probe, and what the last detect() call returned is the cached value; only
\* the explicit reset empties the cache.
C25_DetectMemoized ==
    [][/\ (cache # {} /\ cache' # {}) => cache' = cache
       /\ cache # {} => probeRuns' = probeRuns
       /\ (cache # {} /\ lastCall'.op = "detect" /\ lastCall' # lastCall) =>
             (cache' = cache /\ lastCall'.value \in cache /\ ~lastCall'.fresh)
       /\ (cache # {} /\ cache' = {}) => lastCall'.op = "reset"]_vars

\* detect() has returned the value of the first run although the host would
\* now be detected differently
C25_Witness ==
    /\ lastCall.op = "detect" /\ ~lastCall.fresh /\ lastCall.value \in cache
    /\ probeRuns = 1
    /\ lastCall.value # detect(host)
    /\ lastCall.value.level # detect(host).level
\* the controllers created for an element and not destroyed
LiveControllers(reg, el) ==
    {i \in 1..Len(reg.controllers) :
        reg.controllers[i].element = el /\ ~reg.controllers[i].isDestroyed}

\* C26: after any sequence of attach, handle destroy, Aegis.destroy and
\* Aegis.destroyAll calls, at most one non-destroyed controller created by
\* attach exists for any element.
C26_AtMostOneLiveControllerPerElement ==
    \A el \in Elements : Cardinality(LiveControllers(Registry, el)) <= 1

\* C27: after Aegis.destroyAll() returns, every controller created through
\* attach is destroyed and getInstance returns null for every element,
\* whatever calls preceded it.
C27_DestroyAllDestroysEveryController ==
    LET r == destroyAll(Registry)
    IN  /\ \A i \in 1..Len(r.controllers) : r.controllers[i].isDestroyed
        /\ \A el \in Elements : getInstance(r, el) = Null

\* C28: calling the destroy() of a handle destroys the controller the handle
\* was returned for and removes that controller's registry entry; every other
\* controller stays as it is and stays registered.
C28_HandleCleansUpOnlyItsInstance ==
    \A h \in 1..Len(controllers) :
        LET r == handleDestroy(Registry, h)
        IN  /\ r.controllers[h].isDestroyed
            /\ \A el \in Elements : getInstance(r, el) # h
            /\ \A j \in 1..Len(controllers) :
                  j # h => r.controllers[j] = controllers[j]
            /\ \A el \in Elements :
                  getInstance(Registry, el) \notin {Null, h}
                      => getInstance(r, el) = getInstance(Registry, el)
\* the kind of the k-th event of the debounced function's history
Kind(k) == history[k].kind

\* C29: a burst of calls, each following the previous one by less than wait,
\* results in exactly one invocation of the wrapped function, wait after the
\* last call of the burst and never earlier, with the arguments of that call:
\* every invocation directly follows a call, exactly wait later and with its
\* arguments, and a call is followed within wait by the next call of its
\* burst, by a cancel or by its invocation.
C29_OneInvocationAfterBurst ==
    \A k \in 1..Len(history) :
        /\ Kind(k) = "invoke" =>
              /\ k > 1 /\ Kind(k - 1) = "call"
              /\ history[k].at = history[k - 1].at + wait
              /\ history[k].args = history[k - 1].args
        /\ Kind(k) = "call" =>
              IF k < Len(history)
              THEN history[k + 1].at <= history[k].at + wait
              ELSE clock <= history[k].at + wait

\* three calls one tick apart (wait is two ticks), then the one invocation
C29_Witness ==
    /\ Len(history) = 4
    /\ Kind(1) = "call" /\ Kind(2) = "call" /\ Kind(3) = "call"
    /\ Kind(4) = "invoke"
    /\ history[2].at = history[1].at + 1 /\ history[3].at = history[2].at + 1
    /\ history[4].at = history[3].at + wait
    /\ history[4].args = history[3].args /\ history[4].args # history[2].args

\* C30: after cancel() the pending invocation never fires; at any time at most
\* one timer is pending, the one `timeout` names; a call made after cancel()
\* schedules a fresh invocation, wait after that call.
C30_CancelStopsPendingInvocation ==
    /\ Cardinality(timers) <= 1
    /\ \A t \in timers : t.id = dTimeout
    /\ dTimeout = Null <=> timers = {}
    /\ \A k \in 1..Len(history) :
          /\ Kind(k) = "cancel" =>
                IF k < Len(history) THEN Kind(k + 1) # "invoke" ELSE timers = {}
          /\ (Kind(k) = "call" /\ k = Len(history)) =>
                \E t \in timers : /\ t.due = history[k].at + wait
                                  /\ t.args = history[k].args

\* a call, a cancel after a tick, a new call and its invocation
C30_Witness ==
    /\ Len(history) = 4
    /\ Kind(1) = "call" /\ Kind(2) = "cancel" /\ Kind(3) = "call"
    /\ Kind(4) = "invoke"
    /\ history[2].at = history[1].at + 1
    /\ history[4].at = history[3].at + wait
    /\ history[4].args = history[3].args
\* C31: once isDestroyed is true and destroy() has returned, no track is
\* commanded again: a track that destroy() cancelled stays as cancel() left
\* it (idle), also when the circuit breaker called destroy() in the middle of
\* a playback request.
C31_NoTrackCommandAfterDestroy ==
    (Live /\ isDestroyed) =>
        \A n \in TrackNames : tracks[n].cancelled => tracks[n] = cancel(tracks[n])
\* C32: under revertOnHover, after any mouseleave delivered to a live
\* controller isHovering is false, whatever isTriggered was when the
\* mouseleave arrived; stated for the viewport trigger, which can clear
\* isTriggered while the pointer is over the element.
C32_MouseLeaveClearsHovering ==
    (/\ Live /\ ~isDestroyed /\ attrs.ready /\ options.revertOnHover
     /\ options.trigger.type = "scroll") =>
        ~dispatchEvent(World, "mouseleave", NoFaults, NoDestroyFault).isHovering
\* the direction a track was last commanded in: toward the end state when it
\* plays forward or is held at its duration, else toward the start state
TowardEnd(w, n) ==
    IF w.tracks[n].playState = "running" THEN w.tracks[n].playbackRate = 1
    ELSE w.tracks[n].currentTime = duration(w) /\ duration(w) > 0

\* C33: for a live viewport-exit controller with revertOnHover, reverse
\* playback supported and no host errors, whenever the pointer is outside the
\* target and no debounced leave action is pending, every track was last
\* commanded in the direction isTriggered calls for.
C33_DirectionMatchesTriggered ==
    (/\ Live /\ ~isDestroyed /\ attrs.ready
     /\ options.trigger.type = "scroll" /\ options.revertOnHover
     /\ capabilities.supportsNegativePlaybackRate /\ duration(World) > 0
     /\ ~pointerInside /\ ~timeout) =>
        \A n \in HeldTracks : TowardEnd(World, n) = isTriggered
\* what a controller shows of its trigger state and its playback requests
Outcome(w) ==
    [isTriggered |-> w.isTriggered, isHovering |-> w.isHovering,
     timeout |-> w.timeout, tracks |-> w.tracks]

\* C34: when the host delivers a viewport-observer callback and then a
\* mouseenter or mouseleave, the controller ends as if the observer's change
\* to isTriggered and its playback request had been applied first and those
\* of the mouse event second.
C34_EffectsInDeliveryOrder ==
    (Live /\ ~isDestroyed /\ attrs.ready /\ observer /\ rafQueue = <<>>) =>
        \A entries \in EntryLists, type \in {"mouseenter", "mouseleave"} :
            LET delivered == observerCallback(World, entries)
                handled == dispatchEvent(delivered, type, NoFaults, NoDestroyFault)
                applied == observerFrame([handled EXCEPT !.rafQueue = Tail(@)],
                                         entries, NoFaults, NoDestroyFault)
                inOrder == dispatchEvent(
                               observerFrame(World, entries, NoFaults, NoDestroyFault),
                               type, NoFaults, NoDestroyFault)
            IN  Outcome(applied) = Outcome(inOrder)
\* the selector declared for `key` in options.selectors, "" when there is none
RECURSIVE SelectorOf(_, _, _)
SelectorOf(selectors, key, i) ==
    IF i > Len(selectors) THEN ""
    ELSE IF selectors[i][1] = key THEN selectors[i][2]
    ELSE SelectorOf(selectors, key, i + 1)

\* the names declared in options.animations whose child selector the sandbox
\* of a controller on `target` resolves to an element
ResolvedChildren(target, opts) ==
    {opts.animations[i] : i \in
        {j \in 1..Len(opts.animations) :
            /\ opts.animations[j] # "target"
            /\ SelectorOf(opts.selectors, opts.animations[j], 1) # ""
            /\ queryElementSafely(<<target>>, {},
                   SelectorOf(opts.selectors, opts.animations[j], 1),
                   defaultContext).result # Null}}

\* a controller that went through the Ready initialization without a failure
ReadyWithoutFailure(w) ==
    w.attrs.ready /\ w.attrs.disabled = "none" /\ ~w.isDestroyed

\* C35: after a successful Ready initialization the controller holds exactly
\* the target track and one track per declared name whose child selector the
\* sandbox resolved, one handle per name, each created paused; a declared
\* child that is not resolved gets no track and the controller is still Ready.
C35_TracksAreTargetAndResolvedChildren ==
    /\ (Live /\ ReadyWithoutFailure(World)) =>
           /\ HeldTracks = {"target"} \cup ResolvedChildren(targetElement, options)
           /\ Len(animations) = Cardinality(HeldTracks)
           /\ \A n \in TrackNames \ HeldTracks : tracks[n] = NoTrack
    /\ phase = "new" =>
           \A opts \in OptionsSet, p \in Hosts :
               LET r == constructor(World, 5, opts, p, NoConstructFault)
               IN  /\ (/\ ~r.w.capabilities.reducedMotion
                        /\ checkPrerequisites(r.w)
                        /\ Len(opts.selectors) <= MAX_ELEMENTS_TO_ANIMATE) =>
                          ReadyWithoutFailure(r.w)
                   /\ ReadyWithoutFailure(r.w) =>
                          \A i \in 1..Len(r.w.animations) :
                              r.w.tracks[r.w.animations[i]] = pause(animate)

\* a Ready controller whose declared child was not resolved: it holds the
\* target track alone
C35_Witness ==
    /\ Live /\ ReadyWithoutFailure(World)
    /\ Len(options.animations) = 2
    /\ options.selectors # <<>>
    /\ HeldTracks = {"target"}
    /\ tracks["target"].playState = "paused"
\* C36: when the reverse-playback attempt on a track throws, the same call of
\* playOrSeekAnimation seeks the track to the target extreme (its duration for
\* the end state, 0 for the start state) and pauses it, and counts the failure
\* as one error; when the host lets pause() throw as well, the track is still
\* at the target extreme and the call itself has counted one error.
C36_FailedReverseFallsBackToSeek ==
    (/\ Live /\ ~isDestroyed
     /\ capabilities.supportsNegativePlaybackRate /\ duration(World) > 0) =>
        \A n \in HeldTracks, playToEndState \in BOOLEAN, df \in DestroyFaults :
            LET time == IF playToEndState THEN duration(World) ELSE 0
                r == playOrSeekAnimation(World, n, playToEndState,
                         [try |-> "play", seek |-> "none"], df)
                q == playOrSeekAnimation(World, n, playToEndState,
                         [try |-> "play", seek |-> "pause"], df)
            IN  /\ ~r.threw
                /\ r.w.tracks[n].currentTime = time
                /\ r.w.tracks[n].playState = "paused"
                /\ r.w.errorCount = errorCount + 1
                /\ \A m \in TrackNames \ {n} :
                       r.w.isDestroyed \/ r.w.tracks[m] = tracks[m]
                /\ q.threw
                /\ q.w.tracks[n].currentTime = time
                /\ q.w.errorCount = errorCount + 1

\* a track whose reverse attempt toward the start state failed: the rate was
\* set to -1, play() threw, and the track is paused at 0 with one error counted
C36_Witness ==
    /\ Live /\ ~isDestroyed
    /\ capabilities.supportsNegativePlaybackRate /\ duration(World) > 0
    /\ errorCount = 1
    /\ \E n \in HeldTracks :
          /\ tracks[n].playbackRate = -1
          /\ tracks[n].playState = "paused"
          /\ tracks[n].currentTime = 0
\* C37: after a playback request on a live controller returns, every track of
\* the controller has been commanded toward the requested state (all toward
\* the end state or all toward the start state), also when commanding one of
\* the tracks failed during the request.
C37_AllTracksCommandedAlike ==
    (/\ Live /\ ~isDestroyed /\ attrs.ready /\ duration(World) > 0
     /\ options.trigger.type # "click") =>
        \A playToEndState \in BOOLEAN, faults \in Faults :
            LET w == playAllAnimations(World, playToEndState, faults,
                                       NoDestroyFault)
            IN  ~w.isDestroyed =>
                    \A n \in HeldTracks : TowardEnd(w, n) = playToEndState
\* where the sentinel marker lies relative to the viewport
MarkerPositions == {"above", "inside", "below"}

\* this.sentinelElement.getBoundingClientRect().top < 0 (lines 219-220): the
\* top edge of the marker is above the top edge of the viewport
scrolledPastAt(position) == position = "above"

\* entry.isIntersecting as the host's IntersectionObserver reports it with
\* threshold 0 and rootMargin "0px" (line 209): the marker is in the viewport
isIntersectingAt(position) == position = "inside"

\* C38: for the marker above, inside and below the viewport, the isTriggered
\* value the initial-state pass sets equals the value the observer assigns for
\* that position, so the first observer callback after construction requests
\* no playback when the marker has not moved.
C38_InitialPassAgreesWithObserver ==
    (/\ Live /\ ~isDestroyed /\ observer
     /\ rafQueue # <<>> /\ Head(rafQueue).kind = "initial") =>
        \A position \in MarkerPositions :
            LET initial == initialStateFrame([World EXCEPT !.rafQueue = Tail(@)],
                               scrolledPastAt(position), NoFaults)
                first == observerFrame(initial, <<isIntersectingAt(position)>>,
                             NoFaults, NoDestroyFault)
            IN  /\ first.isTriggered = initial.isTriggered
                /\ first.playback = initial.playback
\* C39: queryElementSafely validates the selector's syntax before it queries
\* the live tree: a query on the live tree was made only for a selector that
\* passed validation, and an empty, blank or malformed selector gives null
\* with no query on the live tree and no exception for the caller.
C39_SyntaxCheckedBeforeLiveQuery ==
    (allowedRootElements # <<>>) =>
        /\ lastQuery.liveQuery =>
               /\ trim(lastQuery.selector) # ""
               /\ ~SelectorSyntaxError(lastQuery.selector)
        /\ (trim(lastQuery.selector) = "" \/ SelectorSyntaxError(lastQuery.selector)) =>
               /\ lastQuery.result = Null
               /\ lastQuery.matched = Null
               /\ ~lastQuery.liveQuery
               /\ ~lastQuery.threw
        /\ (lastQuery.selector \in DOMAIN IdSelectors \cup DOMAIN TagSelectors) =>
               /\ lastQuery.liveQuery
               /\ lastQuery.matched =
                      querySelector(lastQuery.context, lastQuery.selector)

\* a malformed selector was handed to queryElementSafely: null came back and
\* the live tree was not queried
C39_Witness ==
    /\ allowedRootElements # <<>>
    /\ lastQuery.selector \in MalformedSelectors
    /\ lastQuery.result = Null
    /\ ~lastQuery.liveQuery
    /\ ~lastQuery.threw
\* C40: the initial-state pass of a scroll controller, run in the frame after
\* construction, sets isTriggered to whether the marker is scrolled past, sets
\* every track's currentTime to its duration (scrolled past) or to 0 and
\* pauses it, requests no playback and plays no track whatever the host does,
\* and changes nothing when the controller was destroyed before the frame ran.
C40_InitialPassSeeksAndPauses ==
    (Live /\ rafQueue # <<>> /\ Head(rafQueue).kind = "initial") =>
        \A scrolledPast \in BOOLEAN :
            LET before == [World EXCEPT !.rafQueue = Tail(@)]
                w == initialStateFrame(before, scrolledPast, NoFaults)
            IN  /\ isDestroyed => w = before
                /\ ~isDestroyed =>
                       /\ w.isTriggered = scrolledPast
                       /\ \A n \in HeldTracks :
                              /\ w.tracks[n].currentTime =
                                     (IF scrolledPast THEN duration(World) ELSE 0)
                              /\ w.tracks[n].playState = "paused"
                              /\ w.tracks[n].playbackRate = tracks[n].playbackRate
                       /\ w.errorCount = errorCount
                /\ \A faults \in Faults :
                       LET f == initialStateFrame(before, scrolledPast, faults)
                       IN  /\ f.playback = before.playback
                           /\ f.animateCalls = before.animateCalls
                           /\ f.animationCount = animationCount
                           /\ \A n \in TrackNames :
                                  f.tracks[n].playState = "running" =>
                                      tracks[n].playState = "running"

\* the initial pass has run for a marker that is scrolled past: every track is
\* paused at its duration and no playback was requested
C40_Witness ==
    /\ Live /\ ~isDestroyed /\ observer
    /\ rafQueue = <<>> /\ animationCount = 0 /\ errorCount = 0
    /\ isTriggered /\ duration(World) > 0
    /\ HeldTracks # {}
    /\ \A n \in HeldTracks :
          tracks[n].currentTime = duration(World) /\ tracks[n].playState = "paused"

====
